---- MODULE Spec2Model ----
(***************************************************************************)
(* Blob detection and curation stages of blob_detection_functions.py.      *)
(*                                                                         *)
(* A blob record is [z, y, x, scale, intensity].  The code keeps the       *)
(* coordinates as floating-point numbers; here a coordinate c is stored    *)
(* as the integer 2*c (half-pixel units), so that the values 0, 0.5, 1,    *)
(* 1.5, ... and with them the difference between np.round (half to even)   *)
(* and int() (truncation) are representable.  Radii and windows are whole  *)
(* pixels.  Each function of the source is a little state machine: pc is   *)
(* the position inside the running function, fn the function.              *)
(***************************************************************************)
EXTENDS Integers, Sequences, FiniteSets, TLC

VARIABLES
    fn,            \* the function under execution
    pc,            \* position inside it
    blobs,         \* the `blobs` argument (sequence of records)
    image,         \* the `image` argument: [shape, val]
    mask,          \* the `original_mask` argument: [shape, on]
    params,        \* the remaining keyword arguments
    blobs_sorted,  \* blobs[sorted_indices]
    keep_mask,     \* the boolean keep vector of the two suppressors
    i,             \* outer loop index (1-based)
    j,             \* inner loop index (1-based)
    acc,           \* the list a per-blob loop appends to (blobs_all, filtered, kept)
    auto_threshold,\* detect_blobs: the threshold handed to blob_log
    eroded_mask,   \* filter_blobs_outside_eroded_mask: set of True voxels
    mask_difference,\* filter_blobs_outside_eroded_mask: set of True voxels
    result,        \* the returned value, or the raised exception
    run,           \* how many times the function was called in this behaviour
    out1,          \* the value returned by the first call
    lib,           \* what the library routines returned, by arguments
    history,       \* the caller's record of completed calls: [fn, blobs, result]
    gui,           \* the widgets of MultiFileInputGUI
    review,        \* the locals of review_cells_with_napari
    annot          \* the locals of export_ground_truth

maskvars == <<eroded_mask, mask_difference>>

guivars == <<gui, review, annot>>

vars == <<fn, pc, blobs, image, mask, params, blobs_sorted, keep_mask, i, j,
          acc, auto_threshold, maskvars, result, run, out1, lib, history,
          guivars>>

-----------------------------------------------------------------------------
(* Bounds of the model *)

MaxBlobs == 3

\* all sequences over S of length 0..n
SeqsUpTo(S, n) == UNION {[1..k -> S] : k \in 0..n}

Abs(a) == IF a < 0 THEN -a ELSE a

NoImage == [shape |-> <<0, 0, 0>>, val |-> <<>>]
NoMask  == [shape |-> <<0, 0, 0>>, on |-> {}]
NoValue == [kind |-> "none"]
Returned(v) == [kind |-> "return", value |-> v]
Raised(e)   == [kind |-> "raise", error |-> e]

-----------------------------------------------------------------------------
(* np.argsort(-blobs[:, 4]): the default kind is 'quicksort', which numpy   *)
(* documents as not stable.  Every permutation that puts the intensities    *)
(* in non-increasing order is a possible outcome; which one is produced     *)
(* for equal intensities depends on the sort kernel of the build.           *)

\* a routine that may answer differently each time it is called
library_call_fresh(memo, key, outcomes) == outcomes

\* A library routine (np.argsort, skimage's blob_log) is a function of its
\* arguments: the first call with given arguments produces one of the
\* outcomes the routine allows, every later call with the same arguments
\* produces that outcome again.
library_call(memo, key, outcomes) ==
    IF key \in DOMAIN memo THEN {memo[key]} ELSE outcomes

\* the sort key: -blobs[:, 4]
argsort_key(bs) == <<"argsort", [k \in 1..Len(bs) |-> bs[k].intensity]>>

\* a sort that forgets the negation and orders by ascending intensity
argsort_asc(bs) ==
    {p \in [1..Len(bs) -> 1..Len(bs)] :
        /\ \A a, b \in 1..Len(bs) : a # b => p[a] # p[b]
        /\ \A k \in 1..(Len(bs) - 1) : bs[p[k]].intensity <= bs[p[k + 1]].intensity}

Permutations1(n) == {p \in [1..n -> 1..n] : \A a, b \in 1..n : a # b => p[a] # p[b]}

argsort_desc(bs) ==
    {p \in Permutations1(Len(bs)) :
        \A k \in 1..(Len(bs) - 1) : bs[p[k]].intensity >= bs[p[k + 1]].intensity}

\* blobs[sorted_indices]
take(bs, p) == [k \in 1..Len(bs) |-> bs[p[k]]]

\* blobs_sorted[keep_mask]
\* a selection that hands out the rows with the negated sort key left in the
\* intensity column
boolean_index_negated(bs, km) ==
    LET kept == SelectSeq([k \in 1..Len(bs) |-> <<bs[k], km[k]>>], LAMBDA q : q[2])
    IN  [k \in 1..Len(kept) |-> [kept[k][1] EXCEPT !.intensity = -@]]

RECURSIVE boolean_index(_, _)
boolean_index(bs, km) ==
    IF bs = <<>> THEN <<>>
    ELSE IF Head(km) THEN <<Head(bs)>> \o boolean_index(Tail(bs), Tail(km))
         ELSE boolean_index(Tail(bs), Tail(km))

\* a z gate that leaves out blobs exactly z_window apart
in_z_window_strict(a, b, z_window) == Abs(b.z - a.z) < 2 * z_window

\* abs(z1 - z0) <= z_window
in_z_window(a, b, z_window) == Abs(b.z - a.z) <= 2 * z_window

\* a radius test that leaves out the boundary
in_radius_xy_strict(a, b, radius_xy) ==
    (b.y - a.y) * (b.y - a.y) + (b.x - a.x) * (b.x - a.x)
        < (2 * radius_xy) * (2 * radius_xy)

\* a radius test that forgets to square the radius
in_radius_xy_unsquared(a, b, radius_xy) ==
    (b.y - a.y) * (b.y - a.y) + (b.x - a.x) * (b.x - a.x) <= 4 * radius_xy

\* (y1 - y0)**2 + (x1 - x0)**2 <= radius_xy**2
in_radius_xy(a, b, radius_xy) ==
    (b.y - a.y) * (b.y - a.y) + (b.x - a.x) * (b.x - a.x)
        <= (2 * radius_xy) * (2 * radius_xy)

in_gate(a, b, radius_xy, z_window) ==
    in_z_window(a, b, z_window) /\ in_radius_xy(a, b, radius_xy)

-----------------------------------------------------------------------------
(* suppress_close_blobs_by_intensity *)

\* the suppressor without its early return: the column index fails on an
\* empty one-dimensional array
ProxEntry_unguarded ==
    /\ fn = "suppress_close_blobs_by_intensity" /\ pc = "call"
    /\ IF Len(blobs) = 0
         THEN /\ result' = Raised([type |-> "IndexError", msg |-> "too many indices for array"])
              /\ pc' = "done"
              /\ UNCHANGED <<blobs_sorted, keep_mask, i, lib>>
         ELSE /\ \E p \in library_call(lib, argsort_key(blobs), argsort_desc(blobs)) :
                    /\ blobs_sorted' = take(blobs, p)
                    /\ lib' = (argsort_key(blobs) :> p) @@ lib
              /\ keep_mask' = [k \in 1..Len(blobs) |-> TRUE]
              /\ i' = 1
              /\ pc' = "outer"
              /\ UNCHANGED result
    /\ UNCHANGED <<fn, blobs, image, mask, params, j, acc, auto_threshold, run, out1,
                   maskvars, history, guivars>>

ProxEntry ==
    /\ fn = "suppress_close_blobs_by_intensity" /\ pc = "call"
    /\ IF Len(blobs) = 0
         THEN /\ result' = Returned(blobs)
              /\ pc' = "done"
              /\ UNCHANGED <<blobs_sorted, keep_mask, i, lib>>
         ELSE /\ \E p \in library_call(lib, argsort_key(blobs), argsort_desc(blobs)) :
                    /\ blobs_sorted' = take(blobs, p)
                    /\ lib' = (argsort_key(blobs) :> p) @@ lib
              /\ keep_mask' = [k \in 1..Len(blobs) |-> TRUE]
              /\ i' = 1
              /\ pc' = "outer"
              /\ UNCHANGED result
    /\ UNCHANGED <<fn, blobs, image, mask, params, j, acc, auto_threshold, run, out1,
                   maskvars, history, guivars>>

ProxOuter ==
    /\ fn = "suppress_close_blobs_by_intensity" /\ pc = "outer"
    /\ IF i > Len(blobs_sorted)
         THEN /\ result' = Returned(boolean_index(blobs_sorted, keep_mask))
              /\ pc' = "done"
              /\ UNCHANGED <<i, j>>
         ELSE IF ~keep_mask[i]
                THEN /\ i' = i + 1
                     /\ UNCHANGED <<pc, j, result>>
                ELSE /\ j' = i + 1
                     /\ pc' = "inner"
                     /\ UNCHANGED <<i, result>>
    /\ UNCHANGED <<fn, blobs, image, mask, params, blobs_sorted, keep_mask,
                   acc, auto_threshold, run, out1, maskvars, lib, history, guivars>>

\* an inner loop that overwrites keep_mask[j] with the outcome of every
\* comparison, without looking at what it was
ProxInner_overwrite ==
    /\ fn = "suppress_close_blobs_by_intensity" /\ pc = "inner"
    /\ IF j > Len(blobs_sorted)
         THEN /\ i' = i + 1
              /\ pc' = "outer"
              /\ UNCHANGED <<j, keep_mask>>
         ELSE /\ keep_mask' =
                    [keep_mask EXCEPT ![j] =
                        ~in_gate(blobs_sorted[i], blobs_sorted[j],
                                 params.radius_xy, params.z_window)]
              /\ j' = j + 1
              /\ UNCHANGED <<i, pc>>
    /\ UNCHANGED <<fn, blobs, image, mask, params, blobs_sorted, acc,
                   auto_threshold, result, run, out1, maskvars, lib, history, guivars>>

ProxInner ==
    /\ fn = "suppress_close_blobs_by_intensity" /\ pc = "inner"
    /\ IF j > Len(blobs_sorted)
         THEN /\ i' = i + 1
              /\ pc' = "outer"
              /\ UNCHANGED <<j, keep_mask>>
         ELSE /\ keep_mask' =
                    IF keep_mask[j]
                       /\ in_gate(blobs_sorted[i], blobs_sorted[j],
                                  params.radius_xy, params.z_window)
                      THEN [keep_mask EXCEPT ![j] = FALSE]
                      ELSE keep_mask
              /\ j' = j + 1
              /\ UNCHANGED <<i, pc>>
    /\ UNCHANGED <<fn, blobs, image, mask, params, blobs_sorted, acc,
                   auto_threshold, result, run, out1, maskvars, lib, history, guivars>>

\* the caller runs the suppressor again on what it returned
ProxRerun ==
    /\ fn = "suppress_close_blobs_by_intensity" /\ pc = "done" /\ run = 1
    /\ out1' = result.value
    /\ blobs' = result.value
    /\ run' = 2
    /\ pc' = "call"
    /\ result' = NoValue
    /\ blobs_sorted' = <<>> /\ keep_mask' = <<>> /\ i' = 0 /\ j' = 0
    /\ UNCHANGED <<fn, image, mask, params, acc, auto_threshold, maskvars, lib, history, guivars>>

\* inputs of the proximity suppressor
\* (z = 0 or 2; y = 0, 3 or 10 px; x = 0 or 0.5 px, all stored doubled)
ProxZ == {0, 4}
ProxYX == {<<0, 0>>, <<6, 0>>, <<20, 1>>}
ProxIntensity == {150, 200}
ProxRadius == {3, 10}
ProxZWindow == {0, 2}

ProxRecords ==
    {[z |-> zz, y |-> yx[1], x |-> yx[2], scale |-> 1, intensity |-> it] :
        zz \in ProxZ, yx \in ProxYX, it \in ProxIntensity}

InitProx ==
    /\ fn = "suppress_close_blobs_by_intensity" /\ pc = "call"
    /\ blobs \in SeqsUpTo(ProxRecords, MaxBlobs)
    /\ params \in [radius_xy : ProxRadius, z_window : ProxZWindow]
    /\ image = NoImage /\ mask = NoMask
    /\ blobs_sorted = <<>> /\ keep_mask = <<>> /\ i = 0 /\ j = 0
    /\ acc = <<>> /\ auto_threshold = NoValue
    /\ eroded_mask = {} /\ mask_difference = {}
    /\ result = NoValue /\ run = 1 /\ out1 = <<>>
    /\ lib = <<>> /\ history = <<>> /\ gui = NoValue /\ review = NoValue /\ annot = NoValue

NextProx == ProxEntry \/ ProxOuter \/ ProxInner \/ ProxRerun

SpecProx == InitProx /\ [][NextProx]_vars

-----------------------------------------------------------------------------
(* Properties of suppress_close_blobs_by_intensity *)

ProxDone == fn = "suppress_close_blobs_by_intensity" /\ pc = "done"

\* the cylinder of the specification, stated on two records
Close(a, b, radius_xy, z_window) ==
    /\ Abs(a.z - b.z) <= 2 * z_window
    /\ (a.y - b.y) * (a.y - b.y) + (a.x - b.x) * (a.x - b.x)
          <= 4 * radius_xy * radius_xy

\* C1: the array returned by suppress_close_blobs_by_intensity holds no two
\* records (at different positions of the array) that are both within
\* z_window in Z and within radius_xy in XY of each other.
C1_NoClosePairSurvives ==
    ProxDone =>
        \A a, b \in 1..Len(result.value) :
            a # b => ~Close(result.value[a], result.value[b],
                            params.radius_xy, params.z_window)

\* a first call that removed a record and returned two or more
C1_Witness ==
    /\ ProxDone /\ run = 1
    /\ Len(result.value) >= 2
    /\ Len(result.value) < Len(blobs)

\* C2: every record the suppressor removes lies within the cylinder of a
\* record that survives and is at least as bright; and two blobs within the
\* cylinder with intensities 200 and 150 leave exactly the 200 one.
C2_RemovedHasBrighterSurvivor ==
    ProxDone =>
        /\ \A k \in 1..Len(blobs_sorted) :
              ~keep_mask[k] =>
                 \E m \in 1..Len(blobs_sorted) :
                    /\ keep_mask[m]
                    /\ Close(blobs_sorted[m], blobs_sorted[k],
                             params.radius_xy, params.z_window)
                    /\ blobs_sorted[m].intensity >= blobs_sorted[k].intensity
        /\ \A a, b \in 1..Len(blobs) :
              ( /\ Len(blobs) = 2
                /\ blobs[a].intensity = 200 /\ blobs[b].intensity = 150
                /\ Close(blobs[a], blobs[b], params.radius_xy, params.z_window) )
              => result.value = <<blobs[a]>>

\* the scenario: 3 px apart in XY, same Z, 200 and 150, radius 10, window 2
C2_Witness ==
    /\ ProxDone /\ run = 1
    /\ params = [radius_xy |-> 10, z_window |-> 2]
    /\ blobs = << [z |-> 0, y |-> 6, x |-> 0, scale |-> 1, intensity |-> 150],
                  [z |-> 0, y |-> 0, x |-> 0, scale |-> 1, intensity |-> 200] >>
    /\ result.value = << [z |-> 0, y |-> 0, x |-> 0, scale |-> 1, intensity |-> 200] >>

\* C3: running the suppressor on its own output returns the same records in
\* the same order as the first run.
C3_Idempotent ==
    (ProxDone /\ run = 2) => result.value = out1

-----------------------------------------------------------------------------
(* Volumes.  image.shape = <<depth, height, width>>, image.val maps the     *)
(* 0-based voxel <<z, y, x>> to its sample.                                 *)

Voxels(shape) == (0..(shape[1] - 1)) \X (0..(shape[2] - 1)) \X (0..(shape[3] - 1))

Min2(a, b) == IF a < b THEN a ELSE b
Max2(a, b) == IF a > b THEN a ELSE b

\* image.max()
image_max(img) ==
    CHOOSE m \in {img.val[c] : c \in Voxels(img.shape)} :
        \A c \in Voxels(img.shape) : img.val[c] <= m

\* the k-th smallest sample (k counted from 0) of the flattened volume
kth_smallest(img, k) ==
    CHOOSE v \in {img.val[c] : c \in Voxels(img.shape)} :
        /\ Cardinality({c \in Voxels(img.shape) : img.val[c] < v}) <= k
        /\ k < Cardinality({c \in Voxels(img.shape) : img.val[c] <= v})

\* 200 * np.percentile(image, q) for q = q2 / 2 (linear interpolation between
\* the two nearest ranks)
percentile_x200(img, q2) ==
    LET n   == Cardinality(Voxels(img.shape))
        pos == q2 * (n - 1)
        lo  == pos \div 200
        hi  == Min2(lo + 1, n - 1)
    IN  200 * kth_smallest(img, lo)
          + (pos - 200 * lo) * (kth_smallest(img, hi) - kth_smallest(img, lo))

\* numerator / denominator as numpy divides scalars: a zero denominator gives
\* nan or inf (with a RuntimeWarning), never an exception
np_divide(num, den) ==
    IF den # 0 THEN [kind |-> "finite", num |-> num, den |-> den]
    ELSE IF num = 0 THEN [kind |-> "nan"]
    ELSE IF num > 0 THEN [kind |-> "inf"]
    ELSE [kind |-> "-inf"]

ThresholdModeError ==
    [type |-> "ValueError", msg |-> "threshold_mode must be 'percentile' or 'absolute'"]
HstackError ==
    [type |-> "ValueError", msg |-> "all the input arrays must have same number of dimensions"]

\* a resolution that treats every unknown mode as 'absolute'
resolve_threshold_lenient(img, threshold_mode, threshold_value) ==
    IF threshold_mode = "percentile"
      THEN np_divide(percentile_x200(img, threshold_value), 200 * image_max(img))
      ELSE np_divide(threshold_value, 2 * image_max(img))

\* lines 11-22: the threshold handed to blob_log, or the exception raised.
\* threshold_value is stored doubled (199 stands for the 99.5 of the default).
resolve_threshold(img, threshold_mode, threshold_value) ==
    IF threshold_mode = "percentile"
      THEN np_divide(percentile_x200(img, threshold_value), 200 * image_max(img))
    ELSE IF threshold_mode = "absolute"
      THEN np_divide(threshold_value, 2 * image_max(img))
    ELSE [kind |-> "error"]

MaxPerSlice == 2

\* skimage's blob_log on one slice: a list of (y, x, sigma) peaks inside the
\* slice.  Which peaks it finds is the library's business; with a nan or
\* infinite threshold no response exceeds the threshold and the list is empty.
blob_log(img, thr, sigmas) ==
    IF thr.kind \in {"nan", "inf"} THEN {<<>>}
    ELSE SeqsUpTo((0..(img.shape[2] - 1)) \X (0..(img.shape[3] - 1)) \X sigmas,
                  MaxPerSlice)

\* the arguments of one blob_log call: the slice image[z] and the threshold
blob_log_key(img, z, thr) ==
    <<"blob_log",
      [c \in (0..(img.shape[2] - 1)) \X (0..(img.shape[3] - 1)) |-> img.val[<<z, c[1], c[2]>>]],
      thr>>

\* lines 34-38: the samples of the 3x3 patch clamped to the slice
patch(img, z, y, x) ==
    {c \in Voxels(img.shape) :
        /\ c[1] = z
        /\ Max2(0, y - 1) <= c[2] /\ c[2] < Min2(img.shape[2], y + 2)
        /\ Max2(0, x - 1) <= c[3] /\ c[3] < Min2(img.shape[3], x + 2)}

RECURSIVE SumOver(_, _)
SumOver(img, cs) ==
    IF cs = {} THEN 0
    ELSE LET c == CHOOSE d \in cs : TRUE
         IN  img.val[c] + SumOver(img, cs \ {c})

\* patch.mean(), as the fraction sum / count
patch_mean(img, z, y, x) ==
    [num |-> SumOver(img, patch(img, z, y, x)), den |-> Cardinality(patch(img, z, y, x))]

-----------------------------------------------------------------------------
(* detect_blobs.  i is the slice index z (0-based), acc is blobs_all.       *)

DetectThreshold ==
    /\ fn = "detect_blobs" /\ pc = "call"
    /\ LET thr == resolve_threshold(image, params.threshold_mode, params.threshold_value)
       IN  IF thr.kind = "error"
             THEN /\ result' = Raised(ThresholdModeError)
                  /\ pc' = "done"
                  /\ UNCHANGED auto_threshold
             ELSE /\ auto_threshold' = thr
                  /\ pc' = "slices"
                  /\ UNCHANGED result
    /\ UNCHANGED <<fn, blobs, image, mask, params, blobs_sorted, keep_mask, i, j,
                   acc, run, out1, maskvars, lib, history, guivars>>

DetectSlice ==
    /\ fn = "detect_blobs" /\ pc = "slices"
    /\ IF i < image.shape[1]
         THEN /\ \E blobs2d \in library_call(lib, blob_log_key(image, i, auto_threshold),
                                              blob_log(image, auto_threshold, params.sigmas)) :
                    /\ acc' = acc \o [k \in 1..Len(blobs2d) |->
                                     [z |-> 2 * i, y |-> 2 * blobs2d[k][1],
                                      x |-> 2 * blobs2d[k][2], scale |-> blobs2d[k][3]]]
                    /\ lib' = (blob_log_key(image, i, auto_threshold) :> blobs2d) @@ lib
              /\ i' = i + 1
              /\ UNCHANGED pc
         ELSE /\ pc' = "intensities"
              /\ UNCHANGED <<i, acc, lib>>
    /\ UNCHANGED <<fn, blobs, image, mask, params, blobs_sorted, keep_mask, j,
                   auto_threshold, result, run, out1, maskvars, history, guivars>>

\* lines 32-43: measure every candidate, then np.hstack.  With no candidate
\* np.array([]) has one dimension and the intensity column two: hstack raises.
DetectIntensities ==
    /\ fn = "detect_blobs" /\ pc = "intensities"
    /\ result' =
         IF acc = <<>> THEN Raised(HstackError)
         ELSE Returned([k \in 1..Len(acc) |->
                 [z |-> acc[k].z, y |-> acc[k].y, x |-> acc[k].x, scale |-> acc[k].scale,
                  intensity |-> patch_mean(image, acc[k].z \div 2, acc[k].y \div 2,
                                           acc[k].x \div 2)]])
    /\ pc' = "done"
    /\ UNCHANGED <<fn, blobs, image, mask, params, blobs_sorted, keep_mask, i, j,
                   acc, auto_threshold, run, out1, maskvars, lib, history, guivars>>

\* inputs of the detector
DetectShapes == {<<1, 2, 2>>, <<2, 1, 2>>}
DetectSamples == {0, 3}
DetectVolumes ==
    UNION {[shape : {sh}, val : [Voxels(sh) -> DetectSamples]] : sh \in DetectShapes}
DetectModes == {"percentile", "absolute", "otsu"}
DetectThresholdValues == {100, 199}

InitDetect ==
    /\ fn = "detect_blobs" /\ pc = "call"
    /\ image \in DetectVolumes
    /\ params \in [threshold_mode : DetectModes,
                   threshold_value : DetectThresholdValues,
                   sigmas : {{1}}]
    /\ blobs = <<>> /\ mask = NoMask
    /\ blobs_sorted = <<>> /\ keep_mask = <<>> /\ i = 0 /\ j = 0
    /\ acc = <<>> /\ auto_threshold = NoValue
    /\ eroded_mask = {} /\ mask_difference = {}
    /\ result = NoValue /\ run = 1 /\ out1 = <<>>
    /\ lib = <<>> /\ history = <<>> /\ gui = NoValue /\ review = NoValue /\ annot = NoValue

NextDetect == DetectThreshold \/ DetectSlice \/ DetectIntensities

SpecDetect == InitDetect /\ [][NextDetect]_vars

-----------------------------------------------------------------------------
(* Properties of detect_blobs *)

AllZero(img) == \A c \in Voxels(img.shape) : img.val[c] = 0

\* C4: on a volume whose maximum is zero detect_blobs fails with a
\* DegenerateImage error: it never reaches peak detection with a nan or
\* infinite threshold and never returns a result.
C4_DegenerateImageRaised ==
    ( /\ fn = "detect_blobs"
      /\ AllZero(image)
      /\ params.threshold_mode \in {"percentile", "absolute"} )
    => /\ pc \in {"call", "done"}
       /\ auto_threshold = NoValue
       /\ pc = "done" => (result.kind = "raise" /\ result.error.type = "DegenerateImage")

\* C5: with a threshold_mode other than 'percentile' or 'absolute'
\* detect_blobs raises the ValueError of line 22 before any slice is
\* processed and returns no blob records.
C5_InvalidThresholdMode ==
    ( /\ fn = "detect_blobs"
      /\ params.threshold_mode \notin {"percentile", "absolute"} )
    => /\ pc \in {"call", "done"}
       /\ i = 0 /\ acc = <<>> /\ auto_threshold = NoValue
       /\ pc = "done" => result = Raised(ThresholdModeError)

\* the unknown mode was refused on a volume that is not degenerate
C5_Witness ==
    /\ fn = "detect_blobs" /\ pc = "done"
    /\ params.threshold_mode = "otsu"
    /\ ~AllZero(image)
    /\ result = Raised(ThresholdModeError)

-----------------------------------------------------------------------------
(* suppress_blobs_by_bridge_intensity *)

\* int(c) of a coordinate stored doubled: truncation toward zero
int_trunc(c2) == IF c2 >= 0 THEN c2 \div 2 ELSE -((-c2) \div 2)

\* np.round(a / b) for b > 0: to nearest, halves to the even neighbour
round_half_even(a, b) ==
    LET q == a \div b
        r == a % b
    IN  IF 2 * r < b THEN q
        ELSE IF 2 * r > b THEN q + 1
        ELSE IF q % 2 = 0 THEN q ELSE q + 1

\* skimage.draw.line_nd(start, stop) with its defaults endpoint=False,
\* integer=True: max|stop - start| points start + k*(stop - start)/npoints,
\* k = 0..npoints-1, each coordinate rounded.  The stop voxel is not sampled,
\* and two equal end points give no point at all.
line_nd(start, stop) ==
    LET npoints == Max2(Abs(stop[1] - start[1]),
                        Max2(Abs(stop[2] - start[2]), Abs(stop[3] - start[3])))
    IN  [k \in 1..npoints |->
            <<round_half_even(start[1] * npoints + (k - 1) * (stop[1] - start[1]), npoints),
              round_half_even(start[2] * npoints + (k - 1) * (stop[2] - start[2]), npoints),
              round_half_even(start[3] * npoints + (k - 1) * (stop[3] - start[3]), npoints)>>]

\* line 230: the line between the truncated centres of two records
coords_between(b1, b2) ==
    line_nd(<<int_trunc(b1.z), int_trunc(b1.y), int_trunc(b1.x)>>,
            <<int_trunc(b2.z), int_trunc(b2.y), int_trunc(b2.x)>>)

SetMin(S) == CHOOSE m \in S : \A v \in S : m <= v

\* lines 231-233: np.min(image[tuple(coords)])
line_min(img, coords) == SetMin({img.val[coords[k]] : k \in 1..Len(coords)})

\* lines 234-237: dip_ratio > dip_threshold, where dip_ratio is
\* min_val / ((intensity1 + intensity2) / 2) and dip_threshold is stored
\* doubled.  A zero avg_peak divides to inf (min_val > 0) or nan (min_val = 0).
dip_exceeds(min_val, intensity1, intensity2, dip_threshold) ==
    IF intensity1 + intensity2 > 0
      THEN 4 * min_val > dip_threshold * (intensity1 + intensity2)
      ELSE min_val > 0

\* a decision that drops the outer blob whenever there is no dip
bridge_decision_outer(min_val, intensity1, intensity2, dip_threshold) ==
    IF dip_exceeds(min_val, intensity1, intensity2, dip_threshold) THEN "i" ELSE "none"

\* a decision that drops the inner blob on an intensity tie
bridge_decision_geq(min_val, intensity1, intensity2, dip_threshold) ==
    IF dip_exceeds(min_val, intensity1, intensity2, dip_threshold)
      THEN IF intensity1 >= intensity2 THEN "j" ELSE "i"
      ELSE "none"

\* lines 237-243: which of the two compared blobs is excluded
bridge_decision(min_val, intensity1, intensity2, dip_threshold) ==
    IF dip_exceeds(min_val, intensity1, intensity2, dip_threshold)
      THEN IF intensity1 > intensity2 THEN "j" ELSE "i"
      ELSE "none"

ZeroSizeError ==
    [type |-> "ValueError",
     msg |-> "zero-size array to reduction operation minimum which has no identity"]
IndexError == [type |-> "IndexError", msg |-> "index is out of bounds"]

BridgeEntry ==
    /\ fn = "suppress_blobs_by_bridge_intensity" /\ pc = "call"
    /\ IF Len(blobs) = 0
         THEN /\ result' = Returned(blobs)
              /\ pc' = "done"
              /\ UNCHANGED <<blobs_sorted, keep_mask, i, lib>>
         ELSE /\ \E p \in library_call(lib, argsort_key(blobs), argsort_desc(blobs)) :
                    /\ blobs_sorted' = take(blobs, p)
                    /\ lib' = (argsort_key(blobs) :> p) @@ lib
              /\ keep_mask' = [k \in 1..Len(blobs) |-> TRUE]
              /\ i' = 1
              /\ pc' = "outer"
              /\ UNCHANGED result
    /\ UNCHANGED <<fn, blobs, image, mask, params, j, acc, auto_threshold, run, out1,
                   maskvars, history, guivars>>

BridgeOuter ==
    /\ fn = "suppress_blobs_by_bridge_intensity" /\ pc = "outer"
    /\ IF i > Len(blobs_sorted)
         THEN /\ result' = Returned(boolean_index(blobs_sorted, keep_mask))
              /\ pc' = "done"
              /\ UNCHANGED <<i, j>>
         ELSE IF ~keep_mask[i]
                THEN /\ i' = i + 1
                     /\ UNCHANGED <<pc, j, result>>
                ELSE /\ j' = i + 1
                     /\ pc' = "inner"
                     /\ UNCHANGED <<i, result>>
    /\ UNCHANGED <<fn, blobs, image, mask, params, blobs_sorted, keep_mask,
                   acc, auto_threshold, run, out1, maskvars, lib, history, guivars>>

\* the inner loop body without the break of line 243
BridgeInner_no_break ==
    /\ fn = "suppress_blobs_by_bridge_intensity" /\ pc = "inner"
    /\ IF j > Len(blobs_sorted)
         THEN /\ i' = i + 1 /\ pc' = "outer"
              /\ UNCHANGED <<j, keep_mask, result>>
       ELSE IF \/ ~keep_mask[j]
               \/ ~in_z_window(blobs_sorted[i], blobs_sorted[j], params.z_window)
               \/ ~in_radius_xy(blobs_sorted[i], blobs_sorted[j], params.radius_xy)
         THEN /\ j' = j + 1
              /\ UNCHANGED <<i, pc, keep_mask, result>>
       ELSE LET coords == coords_between(blobs_sorted[i], blobs_sorted[j])
            IN  IF \E k \in 1..Len(coords) : coords[k] \notin Voxels(image.shape)
                  THEN /\ result' = Raised(IndexError) /\ pc' = "done"
                       /\ UNCHANGED <<i, j, keep_mask>>
                ELSE IF coords = <<>>
                  THEN /\ result' = Raised(ZeroSizeError) /\ pc' = "done"
                       /\ UNCHANGED <<i, j, keep_mask>>
                ELSE LET d == bridge_decision(line_min(image, coords),
                                              blobs_sorted[i].intensity,
                                              blobs_sorted[j].intensity,
                                              params.dip_threshold)
                     IN  IF d = "j"
                           THEN /\ keep_mask' = [keep_mask EXCEPT ![j] = FALSE]
                                /\ j' = j + 1
                                /\ UNCHANGED <<i, pc, result>>
                         ELSE IF d = "i"
                           THEN /\ keep_mask' = [keep_mask EXCEPT ![i] = FALSE]
                                /\ j' = j + 1
                                /\ UNCHANGED <<i, pc, result>>
                         ELSE /\ j' = j + 1
                              /\ UNCHANGED <<i, pc, keep_mask, result>>
    /\ UNCHANGED <<fn, blobs, image, mask, params, blobs_sorted, acc,
                   auto_threshold, run, out1, maskvars, lib, history, guivars>>

\* one pass of the inner loop body, lines 218-243
BridgeInner ==
    /\ fn = "suppress_blobs_by_bridge_intensity" /\ pc = "inner"
    /\ IF j > Len(blobs_sorted)
         THEN /\ i' = i + 1 /\ pc' = "outer"
              /\ UNCHANGED <<j, keep_mask, result>>
       ELSE IF \/ ~keep_mask[j]
               \/ ~in_z_window(blobs_sorted[i], blobs_sorted[j], params.z_window)
               \/ ~in_radius_xy(blobs_sorted[i], blobs_sorted[j], params.radius_xy)
         THEN /\ j' = j + 1
              /\ UNCHANGED <<i, pc, keep_mask, result>>
       ELSE LET coords == coords_between(blobs_sorted[i], blobs_sorted[j])
            IN  IF \E k \in 1..Len(coords) : coords[k] \notin Voxels(image.shape)
                  THEN /\ result' = Raised(IndexError) /\ pc' = "done"
                       /\ UNCHANGED <<i, j, keep_mask>>
                ELSE IF coords = <<>>
                  THEN /\ result' = Raised(ZeroSizeError) /\ pc' = "done"
                       /\ UNCHANGED <<i, j, keep_mask>>
                ELSE LET d == bridge_decision(line_min(image, coords),
                                              blobs_sorted[i].intensity,
                                              blobs_sorted[j].intensity,
                                              params.dip_threshold)
                     IN  IF d = "j"
                           THEN /\ keep_mask' = [keep_mask EXCEPT ![j] = FALSE]
                                /\ j' = j + 1
                                /\ UNCHANGED <<i, pc, result>>
                         ELSE IF d = "i"
                           THEN /\ keep_mask' = [keep_mask EXCEPT ![i] = FALSE]
                                /\ i' = i + 1 /\ pc' = "outer"
                                /\ UNCHANGED <<j, result>>
                         ELSE /\ j' = j + 1
                              /\ UNCHANGED <<i, pc, keep_mask, result>>
    /\ UNCHANGED <<fn, blobs, image, mask, params, blobs_sorted, acc,
                   auto_threshold, run, out1, maskvars, lib, history, guivars>>

\* inputs of the bridge suppressor: a 2 x 1 x 31 volume that is flat at 190,
\* or 190 with a valley of 50 over x = 10..20; blobs at
\* (z, x) = (0, 0), (1, 3.5), (0, 30), y = 0
BridgeShape == <<2, 1, 31>>
BridgeVolumes ==
    { [shape |-> BridgeShape, val |-> [c \in Voxels(BridgeShape) |-> 190]],
      [shape |-> BridgeShape,
       val |-> [c \in Voxels(BridgeShape) |->
                   IF 10 <= c[3] /\ c[3] <= 20 THEN 50 ELSE 190]] }
BridgeZX == {<<0, 0>>, <<2, 7>>, <<0, 60>>}
BridgeIntensity == {190, 200}
BridgeRadius == {20, 30}
BridgeZWindow == {0, 1}
BridgeDipThreshold == {1, 2}

BridgeRecords ==
    {[z |-> zx[1], y |-> 0, x |-> zx[2], scale |-> 1, intensity |-> it] :
        zx \in BridgeZX, it \in BridgeIntensity}

InitBridge ==
    /\ fn = "suppress_blobs_by_bridge_intensity" /\ pc = "call"
    /\ blobs \in SeqsUpTo(BridgeRecords, MaxBlobs)
    /\ image \in BridgeVolumes
    /\ params \in [radius_xy : BridgeRadius, z_window : BridgeZWindow,
                   dip_threshold : BridgeDipThreshold]
    /\ mask = NoMask
    /\ blobs_sorted = <<>> /\ keep_mask = <<>> /\ i = 0 /\ j = 0
    /\ acc = <<>> /\ auto_threshold = NoValue
    /\ eroded_mask = {} /\ mask_difference = {}
    /\ result = NoValue /\ run = 1 /\ out1 = <<>>
    /\ lib = <<>> /\ history = <<>> /\ gui = NoValue /\ review = NoValue /\ annot = NoValue

NextBridge == BridgeEntry \/ BridgeOuter \/ BridgeInner

SpecBridge == InitBridge /\ [][NextBridge]_vars

-----------------------------------------------------------------------------
(* Properties of suppress_blobs_by_bridge_intensity *)

BridgeDone == fn = "suppress_blobs_by_bridge_intensity" /\ pc = "done"

\* the inner loop is about to compare the kept blobs i and j, which are
\* inside each other's gate and have a line between them
BridgeCompares ==
    /\ fn = "suppress_blobs_by_bridge_intensity" /\ pc = "inner"
    /\ j <= Len(blobs_sorted)
    /\ keep_mask[i] /\ keep_mask[j]
    /\ Close(blobs_sorted[i], blobs_sorted[j], params.radius_xy, params.z_window)
    /\ coords_between(blobs_sorted[i], blobs_sorted[j]) # <<>>

\* min_val / avg_peak > dip_threshold for the pair under comparison
NoDip ==
    4 * line_min(image, coords_between(blobs_sorted[i], blobs_sorted[j]))
        > params.dip_threshold * (blobs_sorted[i].intensity + blobs_sorted[j].intensity)

\* keep_mask' is keep_mask with exactly entry e cleared
Excludes(e) == keep_mask' = [keep_mask EXCEPT ![e] = FALSE]

\* C6: when two kept blobs inside the gate are compared and
\* min_val / avg_peak > dip_threshold, the comparison excludes the member
\* that is not brighter than the other and leaves the other kept; when the
\* ratio is <= dip_threshold the comparison excludes neither.
C6_ComparisonDropsWeaker ==
    [][ BridgeCompares =>
          IF NoDip
            THEN /\ blobs_sorted[i].intensity > blobs_sorted[j].intensity => Excludes(j)
                 /\ blobs_sorted[j].intensity > blobs_sorted[i].intensity => Excludes(i)
                 /\ Excludes(i) \/ Excludes(j)
            ELSE keep_mask' = keep_mask ]_vars

\* a finished scan in which one comparison excluded a strictly weaker blob
\* and another left both blobs of an in-gate pair kept
C6_Witness ==
    /\ BridgeDone /\ result.kind = "return"
    /\ \E a, b \in 1..Len(blobs_sorted) :
          /\ a < b /\ keep_mask[a] /\ ~keep_mask[b]
          /\ blobs_sorted[a].intensity > blobs_sorted[b].intensity
    /\ \E a, b \in 1..Len(blobs_sorted) :
          /\ a < b /\ keep_mask[a] /\ keep_mask[b]
          /\ Close(blobs_sorted[a], blobs_sorted[b], params.radius_xy, params.z_window)

\* the scenario: two blobs 30 px apart in x in the same slice, 200 and 190,
\* on the flat volume (every sample of the line is 190, avg_peak is 195),
\* dip_threshold = 0.5
Strong == [z |-> 0, y |-> 0, x |-> 0, scale |-> 1, intensity |-> 200]
Weak   == [z |-> 0, y |-> 0, x |-> 60, scale |-> 1, intensity |-> 190]
Scenario30px ==
    /\ BridgeDone
    /\ blobs \in {<<Strong, Weak>>, <<Weak, Strong>>}
    /\ \A c \in Voxels(image.shape) : image.val[c] = 190
    /\ params.dip_threshold = 1

\* C7 as stated: with radius_xy = 20 the bridge suppressor returns only the
\* stronger of the two blobs.
C7_DropsWeakerAtRadius20 ==
    (Scenario30px /\ params.radius_xy = 20) => result = Returned(<<Strong>>)

\* C7 as amended: with radius_xy = 20 the two blobs are outside the XY gate,
\* are not compared and are both returned, the stronger first; with
\* radius_xy = 30 the weaker one is dropped and only the stronger returned.
C7_GateDecidesScenario ==
    Scenario30px =>
        /\ params.radius_xy = 20 => result = Returned(<<Strong, Weak>>)
        /\ params.radius_xy = 30 => result = Returned(<<Strong>>)

C7_Witness ==
    /\ Scenario30px /\ params.radius_xy = 20
    /\ result = Returned(<<Strong, Weak>>)

-----------------------------------------------------------------------------
(* filter_blobs_outside_eroded_mask.  mask.on, eroded_mask and              *)
(* mask_difference are the sets of True voxels of the boolean arrays.       *)

\* np.round(blob[:3]).astype(int)
round_voxel(b) ==
    <<round_half_even(b.z, 2), round_half_even(b.y, 2), round_half_even(b.x, 2)>>

neighbours6(v) ==
    { <<v[1] - 1, v[2], v[3]>>, <<v[1] + 1, v[2], v[3]>>,
      <<v[1], v[2] - 1, v[3]>>, <<v[1], v[2] + 1, v[3]>>,
      <<v[1], v[2], v[3] - 1>>, <<v[1], v[2], v[3] + 1>> }

\* one pass of scipy's binary_erosion with its default structuring element
\* (the 6-connected cross) and border_value = 0: a voxel survives when it and
\* its six face neighbours are set; a neighbour outside the array is not set
erode_once(on) == {v \in on : neighbours6(v) \subseteq on}

RECURSIVE erode_times(_, _)
erode_times(on, n) == IF n = 0 THEN on ELSE erode_times(erode_once(on), n - 1)

RECURSIVE erode_until_stable(_)
erode_until_stable(on) ==
    IF erode_once(on) = on THEN on ELSE erode_until_stable(erode_once(on))

\* binary_erosion(original_mask, iterations): with iterations < 1 the erosion
\* is repeated until the result no longer changes
binary_erosion(on, iterations) ==
    IF iterations < 1 THEN erode_until_stable(on) ELSE erode_times(on, iterations)

\* a bounds test that forgets the lower limits
in_bounds_upper_only(v, shape) ==
    v[1] < shape[1] /\ v[2] < shape[2] /\ v[3] < shape[3]

\* lines 162-165
in_bounds(v, shape) ==
    /\ 0 <= v[1] /\ v[1] < shape[1]
    /\ 0 <= v[2] /\ v[2] < shape[2]
    /\ 0 <= v[3] /\ v[3] < shape[3]

\* numpy indexing: a negative index counts from the end of its axis
np_index(v, shape) ==
    << IF v[1] < 0 THEN v[1] + shape[1] ELSE v[1],
       IF v[2] < 0 THEN v[2] + shape[2] ELSE v[2],
       IF v[3] < 0 THEN v[3] + shape[3] ELSE v[3] >>

\* lines 162-166: the test that keeps a blob
mask_keeps(b, shape, difference) ==
    /\ in_bounds(round_voxel(b), shape)
    /\ np_index(round_voxel(b), shape) \notin difference

MaskEntry ==
    /\ fn = "filter_blobs_outside_eroded_mask" /\ pc = "call"
    /\ eroded_mask' = binary_erosion(mask.on, params.erosion_iterations)
    /\ mask_difference' = mask.on \ eroded_mask'
    /\ acc' = <<>> /\ i' = 1 /\ pc' = "loop"
    /\ UNCHANGED <<fn, blobs, image, mask, params, blobs_sorted, keep_mask, j,
                   auto_threshold, result, run, out1, lib, history, guivars>>

MaskBlob ==
    /\ fn = "filter_blobs_outside_eroded_mask" /\ pc = "loop"
    /\ i <= Len(blobs)
    /\ acc' = IF mask_keeps(blobs[i], mask.shape, mask_difference)
                THEN Append(acc, blobs[i]) ELSE acc
    /\ i' = i + 1
    /\ UNCHANGED <<fn, pc, blobs, image, mask, params, blobs_sorted, keep_mask, j,
                   auto_threshold, maskvars, result, run, out1, lib, history, guivars>>

MaskReturn ==
    /\ fn = "filter_blobs_outside_eroded_mask" /\ pc = "loop"
    /\ i > Len(blobs)
    /\ result' = Returned(<<acc, eroded_mask>>)
    /\ pc' = "done"
    /\ UNCHANGED <<fn, blobs, image, mask, params, blobs_sorted, keep_mask, i, j,
                   acc, auto_threshold, maskvars, run, out1, lib, history, guivars>>

\* inputs of the mask filter: a 3 x 3 x 4 mask that is full, empty, full
\* without the corner (0,0,0) or full without the face voxel (1,1,0); blobs
\* at (z, y, x) = (1,1,1), (1,1,2.5), (0,0,0), (1,1,0), (-1,1,1),
\* (-0.5,1,1), (1,1,3.5)
MaskShape == <<3, 3, 4>>
MaskSets ==
    { Voxels(MaskShape), {},
      Voxels(MaskShape) \ {<<0, 0, 0>>},
      Voxels(MaskShape) \ {<<1, 1, 0>>} }
MaskZYX == { <<2, 2, 2>>, <<2, 2, 5>>, <<0, 0, 0>>, <<2, 2, 0>>,
             <<-2, 2, 2>>, <<-1, 2, 2>>, <<2, 2, 7>> }
MaskErosions == {0, 1, 2}
MaskRecords ==
    {[z |-> p[1], y |-> p[2], x |-> p[3], scale |-> 1, intensity |-> 100] : p \in MaskZYX}

InitMask ==
    /\ fn = "filter_blobs_outside_eroded_mask" /\ pc = "call"
    /\ blobs \in SeqsUpTo(MaskRecords, MaxBlobs)
    /\ mask \in [shape : {MaskShape}, on : MaskSets]
    /\ params \in [erosion_iterations : MaskErosions]
    /\ image = NoImage
    /\ blobs_sorted = <<>> /\ keep_mask = <<>> /\ i = 0 /\ j = 0
    /\ acc = <<>> /\ auto_threshold = NoValue
    /\ eroded_mask = {} /\ mask_difference = {}
    /\ result = NoValue /\ run = 1 /\ out1 = <<>>
    /\ lib = <<>> /\ history = <<>> /\ gui = NoValue /\ review = NoValue /\ annot = NoValue

NextMask == MaskEntry \/ MaskBlob \/ MaskReturn

SpecMask == InitMask /\ [][NextMask]_vars

-----------------------------------------------------------------------------
(* Properties of filter_blobs_outside_eroded_mask *)

MaskDone == fn = "filter_blobs_outside_eroded_mask" /\ pc = "done"

Eroded == binary_erosion(mask.on, params.erosion_iterations)
Ring == mask.on \ Eroded

InsideArray(v) ==
    /\ 0 <= v[1] /\ v[1] <= mask.shape[1] - 1
    /\ 0 <= v[2] /\ v[2] <= mask.shape[2] - 1
    /\ 0 <= v[3] /\ v[3] <= mask.shape[3] - 1

C8_Keeps(b) == InsideArray(round_voxel(b)) /\ round_voxel(b) \notin Ring

C9_ReturnedInsideEroded ==
    MaskDone =>
        \A m \in 1..Len(result.value[1]) :
            round_voxel(result.value[1][m]) \in result.value[2]

-----------------------------------------------------------------------------
(* filter_blobs_by_local_intensity.  ratio_threshold is stored doubled.     *)

\* a boundary test that lets the region reach one past the far edges
local_in_bounds_inclusive(v, shape, region_size) ==
    /\ region_size <= v[2] /\ v[2] <= shape[2] - region_size
    /\ region_size <= v[3] /\ v[3] <= shape[3] - region_size
    /\ 0 <= v[1] /\ v[1] < shape[1]

\* lines 127-131
local_in_bounds(v, shape, region_size) ==
    /\ region_size <= v[2] /\ v[2] < shape[2] - region_size
    /\ region_size <= v[3] /\ v[3] < shape[3] - region_size
    /\ 0 <= v[1] /\ v[1] < shape[1]

\* lines 132-133: image[z, y-r:y+r+1, x-r:x+r+1]; a slice that reaches past
\* the end of an axis is clipped to the axis
region(img, v, region_size) ==
    {c \in Voxels(img.shape) :
        /\ c[1] = v[1]
        /\ v[2] - region_size <= c[2] /\ c[2] < v[2] + region_size + 1
        /\ v[3] - region_size <= c[3] /\ c[3] < v[3] + region_size + 1}

\* lines 134-135: intensity > ratio_threshold * region.mean()
exceeds_local_mean(img, b, region_size, ratio_threshold) ==
    LET reg == region(img, round_voxel(b), region_size)
    IN  2 * b.intensity * Cardinality(reg) > ratio_threshold * SumOver(img, reg)

\* lines 127-136: the test that keeps a blob
local_keeps(img, b, region_size, ratio_threshold) ==
    /\ local_in_bounds(round_voxel(b), img.shape, region_size)
    /\ exceeds_local_mean(img, b, region_size, ratio_threshold)

LocalEntry ==
    /\ fn = "filter_blobs_by_local_intensity" /\ pc = "call"
    /\ acc' = <<>> /\ i' = 1 /\ pc' = "loop"
    /\ UNCHANGED <<fn, blobs, image, mask, params, blobs_sorted, keep_mask, j,
                   auto_threshold, maskvars, result, run, out1, lib, history, guivars>>

\* a loop body that puts each passing blob in front of the ones found so far
LocalBlob_prepend ==
    /\ fn = "filter_blobs_by_local_intensity" /\ pc = "loop"
    /\ i <= Len(blobs)
    /\ acc' = IF local_keeps(image, blobs[i], params.region_size, params.ratio_threshold)
                THEN <<blobs[i]>> \o acc ELSE acc
    /\ i' = i + 1
    /\ UNCHANGED <<fn, pc, blobs, image, mask, params, blobs_sorted, keep_mask, j,
                   auto_threshold, maskvars, result, run, out1, lib, history, guivars>>

LocalBlob ==
    /\ fn = "filter_blobs_by_local_intensity" /\ pc = "loop"
    /\ i <= Len(blobs)
    /\ acc' = IF local_keeps(image, blobs[i], params.region_size, params.ratio_threshold)
                THEN Append(acc, blobs[i]) ELSE acc
    /\ i' = i + 1
    /\ UNCHANGED <<fn, pc, blobs, image, mask, params, blobs_sorted, keep_mask, j,
                   auto_threshold, maskvars, result, run, out1, lib, history, guivars>>

LocalReturn ==
    /\ fn = "filter_blobs_by_local_intensity" /\ pc = "loop"
    /\ i > Len(blobs)
    /\ result' = Returned(acc)
    /\ pc' = "done"
    /\ UNCHANGED <<fn, blobs, image, mask, params, blobs_sorted, keep_mask, i, j,
                   acc, auto_threshold, maskvars, run, out1, lib, history, guivars>>

\* inputs of the local contrast filter: a 1 x 3 x 5 volume that is flat at
\* 10, or 5 with the one sample 59 at (0,1,2); blobs of intensity 20 at
\* (z, y, x) = (0,1,1), (0,1,0), (0,1,3), (0,1,3.5), (0,1,0.5), (0,0,1),
\* (1,1,1)
LocalShape == <<1, 3, 5>>
LocalVolumes ==
    { [shape |-> LocalShape, val |-> [c \in Voxels(LocalShape) |-> 10]],
      [shape |-> LocalShape,
       val |-> [c \in Voxels(LocalShape) |-> IF c = <<0, 1, 2>> THEN 59 ELSE 5]] }
LocalZYX == { <<0, 2, 2>>, <<0, 2, 0>>, <<0, 2, 6>>, <<0, 2, 7>>, <<0, 2, 1>>,
              <<0, 0, 2>>, <<2, 2, 2>> }
LocalRegionSizes == {0, 1}
LocalRatios == {0, 4}
LocalRecords ==
    {[z |-> p[1], y |-> p[2], x |-> p[3], scale |-> 1, intensity |-> 20] : p \in LocalZYX}

InitLocal ==
    /\ fn = "filter_blobs_by_local_intensity" /\ pc = "call"
    /\ blobs \in SeqsUpTo(LocalRecords, MaxBlobs)
    /\ image \in LocalVolumes
    /\ params \in [region_size : LocalRegionSizes, ratio_threshold : LocalRatios]
    /\ mask = NoMask
    /\ blobs_sorted = <<>> /\ keep_mask = <<>> /\ i = 0 /\ j = 0
    /\ acc = <<>> /\ auto_threshold = NoValue
    /\ eroded_mask = {} /\ mask_difference = {}
    /\ result = NoValue /\ run = 1 /\ out1 = <<>>
    /\ lib = <<>> /\ history = <<>> /\ gui = NoValue /\ review = NoValue /\ annot = NoValue

NextLocal == LocalEntry \/ LocalBlob \/ LocalReturn

SpecLocal == InitLocal /\ [][NextLocal]_vars

-----------------------------------------------------------------------------
(* Properties of filter_blobs_by_local_intensity *)

LocalDone == fn = "filter_blobs_by_local_intensity" /\ pc = "done"

\* rounded y and x at least region_size away from both XY edges
AwayFromXYEdges(b) ==
    LET v == round_voxel(b)
    IN  /\ params.region_size <= v[2]
        /\ v[2] <= image.shape[2] - 1 - params.region_size
        /\ params.region_size <= v[3]
        /\ v[3] <= image.shape[3] - 1 - params.region_size

InsideDepth(b) == 0 <= round_voxel(b)[1] /\ round_voxel(b)[1] <= image.shape[1] - 1

\* intensity > ratio_threshold * mean of the (2*region_size+1)^2 samples
\* around the rounded centre (the samples that exist, when the slice does not)
BrighterThanRegion(b) ==
    LET v    == round_voxel(b)
        side == 2 * params.region_size + 1
        reg  == {c \in Voxels(image.shape) :
                    /\ c[1] = v[1]
                    /\ Abs(c[2] - v[2]) <= params.region_size
                    /\ Abs(c[3] - v[3]) <= params.region_size}
    IN  2 * b.intensity * side * side > params.ratio_threshold * SumOver(image, reg)

C10_KeepsAsStated(b) == AwayFromXYEdges(b) /\ BrighterThanRegion(b)

C10_Keeps(b) == AwayFromXYEdges(b) /\ InsideDepth(b) /\ BrighterThanRegion(b)

\* C10 as stated: a blob whose rounded y and x are at least region_size away
\* from both XY edges is kept iff intensity > ratio_threshold * region mean;
\* a blob closer to an XY edge is dropped.
C10_XYBoundaryAlone ==
    LocalDone => result.value = SelectSeq(blobs, C10_KeepsAsStated)

\* C10 as amended: a blob whose rounded y and x are at least region_size
\* away from both XY edges and whose rounded z is a slice of the volume is
\* kept iff intensity > ratio_threshold * region mean; a blob closer to an XY
\* edge, or with z outside the volume, is dropped whatever its intensity and
\* ratio_threshold.
C10_BoundaryPolicy ==
    LocalDone =>
        /\ result.value = SelectSeq(blobs, C10_Keeps)
        /\ \A k \in 1..Len(blobs) :
              ~(AwayFromXYEdges(blobs[k]) /\ InsideDepth(blobs[k]))
                 => \A m \in 1..Len(result.value) : result.value[m] # blobs[k]

\* region_size = 1 on the 5-wide volume: the blob at x = 1 (exactly
\* region_size from the edge) was evaluated and kept, the one at x = 0 dropped
C10_Witness ==
    /\ LocalDone
    /\ params.region_size = 1
    /\ blobs = << [z |-> 0, y |-> 2, x |-> 2, scale |-> 1, intensity |-> 20],
                  [z |-> 0, y |-> 2, x |-> 0, scale |-> 1, intensity |-> 20] >>
    /\ result.value = << [z |-> 0, y |-> 2, x |-> 2, scale |-> 1, intensity |-> 20] >>

-----------------------------------------------------------------------------
(* filter_blobs_by_sharpness.  drop_factor is stored doubled.               *)

\* line 180: strictly inside the volume on every axis
strictly_inside(v, shape) ==
    /\ 0 < v[1] /\ v[1] < shape[1] - 1
    /\ 0 < v[2] /\ v[2] < shape[2] - 1
    /\ 0 < v[3] /\ v[3] < shape[3] - 1

\* line 183: image[z-1:z+2, y-1:y+2, x-1:x+2]
local_cube(img, v) ==
    {c \in Voxels(img.shape) :
        /\ v[1] - 1 <= c[1] /\ c[1] < v[1] + 2
        /\ v[2] - 1 <= c[2] /\ c[2] < v[2] + 2
        /\ v[3] - 1 <= c[3] /\ c[3] < v[3] + 2}

\* a peak test that reads the record's intensity instead of the centre voxel
is_sharp_by_record(img, b, drop_factor) ==
    LET cube == local_cube(img, round_voxel(b))
    IN  2 * b.intensity * Cardinality(cube) > drop_factor * SumOver(img, cube)

\* a peak test that also accepts a centre equal to the scaled mean
is_sharp_or_equal(img, b, drop_factor) ==
    LET cube == local_cube(img, round_voxel(b))
    IN  2 * img.val[round_voxel(b)] * Cardinality(cube) >= drop_factor * SumOver(img, cube)

\* lines 182-185: center_intensity > drop_factor * local_cube.mean()
is_sharp(img, b, drop_factor) ==
    LET cube == local_cube(img, round_voxel(b))
    IN  2 * img.val[round_voxel(b)] * Cardinality(cube) > drop_factor * SumOver(img, cube)

\* lines 179-186: the test that keeps a blob
sharpness_keeps(img, b, drop_factor) ==
    /\ strictly_inside(round_voxel(b), img.shape)
    /\ is_sharp(img, b, drop_factor)

SharpEntry ==
    /\ fn = "filter_blobs_by_sharpness" /\ pc = "call"
    /\ acc' = <<>> /\ i' = 1 /\ pc' = "loop"
    /\ UNCHANGED <<fn, blobs, image, mask, params, blobs_sorted, keep_mask, j,
                   auto_threshold, maskvars, result, run, out1, lib, history, guivars>>

SharpBlob ==
    /\ fn = "filter_blobs_by_sharpness" /\ pc = "loop"
    /\ i <= Len(blobs)
    /\ acc' = IF sharpness_keeps(image, blobs[i], params.drop_factor)
                THEN Append(acc, blobs[i]) ELSE acc
    /\ i' = i + 1
    /\ UNCHANGED <<fn, pc, blobs, image, mask, params, blobs_sorted, keep_mask, j,
                   auto_threshold, maskvars, result, run, out1, lib, history, guivars>>

SharpReturn ==
    /\ fn = "filter_blobs_by_sharpness" /\ pc = "loop"
    /\ i > Len(blobs)
    /\ result' = Returned(acc)
    /\ pc' = "done"
    /\ UNCHANGED <<fn, blobs, image, mask, params, blobs_sorted, keep_mask, i, j,
                   acc, auto_threshold, maskvars, run, out1, lib, history, guivars>>

\* inputs of the sharpness filter: a 3 x 3 x 4 volume that is flat at 10, or
\* 5 with the one sample 59 at (1,1,1); blobs of intensity 1 or 100 at
\* (z, y, x) = (1,1,1), (1,1,2), (1,1,2.5), (0,1,1), (1,1,3), (1,1,3.5)
SharpShape == <<3, 3, 4>>
SharpVolumes ==
    { [shape |-> SharpShape, val |-> [c \in Voxels(SharpShape) |-> 10]],
      [shape |-> SharpShape,
       val |-> [c \in Voxels(SharpShape) |-> IF c = <<1, 1, 1>> THEN 59 ELSE 5]] }
SharpZYX == { <<2, 2, 2>>, <<2, 2, 4>>, <<2, 2, 5>>, <<0, 2, 2>>, <<2, 2, 6>>,
              <<2, 2, 7>> }
SharpIntensity == {1, 100}
SharpDropFactors == {0, 2}
SharpRecords ==
    {[z |-> p[1], y |-> p[2], x |-> p[3], scale |-> 1, intensity |-> it] :
        p \in SharpZYX, it \in SharpIntensity}

InitSharp ==
    /\ fn = "filter_blobs_by_sharpness" /\ pc = "call"
    /\ blobs \in SeqsUpTo(SharpRecords, MaxBlobs)
    /\ image \in SharpVolumes
    /\ params \in [drop_factor : SharpDropFactors]
    /\ mask = NoMask
    /\ blobs_sorted = <<>> /\ keep_mask = <<>> /\ i = 0 /\ j = 0
    /\ acc = <<>> /\ auto_threshold = NoValue
    /\ eroded_mask = {} /\ mask_difference = {}
    /\ result = NoValue /\ run = 1 /\ out1 = <<>>
    /\ lib = <<>> /\ history = <<>> /\ gui = NoValue /\ review = NoValue /\ annot = NoValue

NextSharp == SharpEntry \/ SharpBlob \/ SharpReturn

SpecSharp == InitSharp /\ [][NextSharp]_vars

-----------------------------------------------------------------------------
(* Properties of filter_blobs_by_sharpness *)

SharpDone == fn = "filter_blobs_by_sharpness" /\ pc = "done"

\* the rounded voxel is on no outer face and not outside the volume
OffEveryFace(v) ==
    \A d \in 1..3 : 1 <= v[d] /\ v[d] <= image.shape[d] - 2

\* the 27 voxels of the 3x3x3 neighbourhood of v
Cube27(v) ==
    {<<v[1] + dz, v[2] + dy, v[3] + dx>> : dz \in -1..1, dy \in -1..1, dx \in -1..1}

C11_Keeps(b) ==
    /\ OffEveryFace(round_voxel(b))
    /\ 2 * 27 * image.val[round_voxel(b)]
          > params.drop_factor * SumOver(image, Cube27(round_voxel(b)))

\* C11: the sharpness filter drops every blob whose rounded z, y or x is 0 or
\* size-1 on its axis or outside the volume, and keeps any other blob iff
\* the Volume value at its rounded voxel is strictly greater than
\* drop_factor times the mean of the 27 voxels around it; the record's own
\* intensity plays no part.
C11_SharpnessPolicy ==
    SharpDone =>
        /\ result.value = SelectSeq(blobs, C11_Keeps)
        /\ \A k \in 1..Len(blobs) :
              ~OffEveryFace(round_voxel(blobs[k]))
                 => \A m \in 1..Len(result.value) : result.value[m] # blobs[k]

\* on the peaked volume with drop_factor 1: the blob on the peak is kept, the
\* bright record next to the peak and the blob on a face are dropped
C11_Witness ==
    /\ SharpDone
    /\ params.drop_factor = 2
    /\ image.val[<<1, 1, 1>>] = 59
    /\ blobs = << [z |-> 2, y |-> 2, x |-> 4, scale |-> 1, intensity |-> 100],
                  [z |-> 2, y |-> 2, x |-> 2, scale |-> 1, intensity |-> 1],
                  [z |-> 0, y |-> 2, x |-> 2, scale |-> 1, intensity |-> 100] >>
    /\ result.value = << [z |-> 2, y |-> 2, x |-> 2, scale |-> 1, intensity |-> 1] >>

-----------------------------------------------------------------------------
(* The four image-free or image-reading stages on one single blob with the  *)
(* most permissive thresholds: dip_threshold = 1, ratio_threshold = 0,      *)
(* drop_factor = 0.                                                         *)

\* (z=5, y=50, x=50, scale=2, intensity=100)
SingleBlob == [z |-> 10, y |-> 100, x |-> 100, scale |-> 2, intensity |-> 100]

\* the smallest volume in which voxel (5, 50, 50) is off every face, and one
\* that is wider; every sample is `base` except the one under the blob
SingleShapes == {<<7, 52, 52>>, <<7, 52, 53>>}
SingleVolumes ==
    { [shape |-> sh,
       val |-> [c \in Voxels(sh) |-> IF c = <<5, 50, 50>> THEN centre ELSE base]] :
         sh \in SingleShapes, centre \in {0, 8}, base \in {0, 3} }

SingleStages ==
    { "suppress_close_blobs_by_intensity", "suppress_blobs_by_bridge_intensity",
      "filter_blobs_by_local_intensity", "filter_blobs_by_sharpness" }

InitSingle ==
    /\ fn \in SingleStages /\ pc = "call"
    /\ blobs = <<SingleBlob>>
    /\ image \in SingleVolumes
    /\ params \in [radius_xy : {10, 20}, z_window : {2}, dip_threshold : {2},
                   region_size : {0, 1}, ratio_threshold : {0}, drop_factor : {0}]
    /\ mask = NoMask
    /\ blobs_sorted = <<>> /\ keep_mask = <<>> /\ i = 0 /\ j = 0
    /\ acc = <<>> /\ auto_threshold = NoValue
    /\ eroded_mask = {} /\ mask_difference = {}
    /\ result = NoValue /\ run = 1 /\ out1 = <<>>
    /\ lib = <<>> /\ history = <<>> /\ gui = NoValue /\ review = NoValue /\ annot = NoValue

NextSingle ==
    \/ ProxEntry \/ ProxOuter \/ ProxInner
    \/ BridgeEntry \/ BridgeOuter \/ BridgeInner
    \/ LocalEntry \/ LocalBlob \/ LocalReturn
    \/ SharpEntry \/ SharpBlob \/ SharpReturn

SpecSingle == InitSingle /\ [][NextSingle]_vars

\* C12 as stated: on every such non-negative volume each of the four stages
\* returns exactly the one record, unchanged.
C12_EveryStageReturnsIt ==
    (fn \in SingleStages /\ pc = "done") => result = Returned(<<SingleBlob>>)

\* C12 as amended: the proximity suppressor, the bridge suppressor and the
\* local contrast filter return exactly the one record on every such volume;
\* the sharpness filter returns it when the Volume value at voxel (5,50,50)
\* is positive and returns nothing when that value is 0.
C12_PermissiveThresholds ==
    (fn \in SingleStages /\ pc = "done") =>
        IF fn = "filter_blobs_by_sharpness" /\ image.val[<<5, 50, 50>>] = 0
          THEN result = Returned(<<>>)
          ELSE result = Returned(<<SingleBlob>>)

\* the sharpness filter returned the record on a volume that is zero
\* everywhere except under the blob
C12_Witness ==
    /\ fn = "filter_blobs_by_sharpness" /\ pc = "done"
    /\ image.val[<<5, 50, 50>>] = 8 /\ image.val[<<0, 0, 0>>] = 0
    /\ result = Returned(<<SingleBlob>>)

-----------------------------------------------------------------------------
(* The caller composes the stages: the blob list one stage returns is the   *)
(* blob list of the next.                                                   *)

PipeMaxBlobs == 2

Stages ==
    { "suppress_close_blobs_by_intensity", "suppress_blobs_by_bridge_intensity",
      "filter_blobs_by_local_intensity", "filter_blobs_by_sharpness",
      "filter_blobs_outside_eroded_mask" }

\* the blob list in what a stage returned; the mask filter returns a pair
returned_blobs(f, r) ==
    IF f = "filter_blobs_outside_eroded_mask" THEN r.value[1] ELSE r.value

\* blobs_next = stage(blobs_previous, ...)
PipeNext ==
    /\ fn \in Stages /\ pc = "done" /\ result.kind = "return"
    /\ history = <<>>
    /\ history' = <<[fn |-> fn, blobs |-> blobs, result |-> result]>>
    /\ fn' \in Stages
    /\ blobs' = returned_blobs(fn, result)
    /\ pc' = "call" /\ result' = NoValue /\ run' = run + 1
    /\ blobs_sorted' = <<>> /\ keep_mask' = <<>> /\ i' = 0 /\ j' = 0 /\ acc' = <<>>
    /\ eroded_mask' = {} /\ mask_difference' = {}
    /\ UNCHANGED <<image, mask, params, auto_threshold, out1, lib, guivars>>

\* inputs of the composed stages: a 3 x 3 x 4 volume, flat or with one peak at
\* (1,1,1), with a mask that is full or lacks the voxel (1,1,2); blobs at
\* (z, y, x) = (1,1,1), (1,1,2), (0,1,1); loose or tight thresholds
PipeZYX == {<<2, 2, 2>>, <<2, 2, 4>>, <<0, 2, 2>>}
PipeRecords ==
    {[z |-> p[1], y |-> p[2], x |-> p[3], scale |-> 1, intensity |-> it] :
        p \in PipeZYX, it \in {1, 100}}
PipeScenes ==
    { [image |-> [shape |-> SharpShape, val |-> [c \in Voxels(SharpShape) |-> 10]],
       mask |-> [shape |-> SharpShape, on |-> Voxels(SharpShape)]],
      [image |-> [shape |-> SharpShape,
                  val |-> [c \in Voxels(SharpShape) |-> IF c = <<1, 1, 1>> THEN 59 ELSE 5]],
       mask |-> [shape |-> SharpShape, on |-> Voxels(SharpShape) \ {<<1, 1, 2>>}]] }
PipeParams ==
    { [radius_xy |-> 0, z_window |-> 0, dip_threshold |-> 2, region_size |-> 0,
       ratio_threshold |-> 0, drop_factor |-> 0, erosion_iterations |-> 0],
      [radius_xy |-> 3, z_window |-> 1, dip_threshold |-> 1, region_size |-> 1,
       ratio_threshold |-> 4, drop_factor |-> 2, erosion_iterations |-> 1] }

InitPipeline ==
    /\ fn \in Stages /\ pc = "call"
    /\ blobs \in SeqsUpTo(PipeRecords, PipeMaxBlobs)
    /\ \E scene \in PipeScenes : image = scene.image /\ mask = scene.mask
    /\ params \in PipeParams
    /\ blobs_sorted = <<>> /\ keep_mask = <<>> /\ i = 0 /\ j = 0
    /\ acc = <<>> /\ auto_threshold = NoValue
    /\ eroded_mask = {} /\ mask_difference = {}
    /\ result = NoValue /\ run = 1 /\ out1 = <<>>
    /\ lib = <<>> /\ history = <<>> /\ gui = NoValue /\ review = NoValue /\ annot = NoValue

StageStep ==
    \/ ProxEntry \/ ProxOuter \/ ProxInner
    \/ BridgeEntry \/ BridgeOuter \/ BridgeInner
    \/ LocalEntry \/ LocalBlob \/ LocalReturn
    \/ SharpEntry \/ SharpBlob \/ SharpReturn
    \/ MaskEntry \/ MaskBlob \/ MaskReturn

NextPipeline == StageStep \/ PipeNext

SpecPipeline == InitPipeline /\ [][NextPipeline]_vars

StageDone == fn \in Stages /\ pc = "done"

\* C13: every suppression and filter stage called with an empty blob list
\* returns (it does not raise), and the blob list it returns is empty; the
\* same when the empty list is what a previous stage returned.
C13_EmptyInEmptyOut ==
    (StageDone /\ Len(blobs) = 0) =>
        /\ result.kind = "return"
        /\ returned_blobs(fn, result) = <<>>

\* a stage was given blobs and dropped them all, and the stage called on its
\* output has returned
C13_Witness ==
    /\ StageDone /\ Len(blobs) = 0
    /\ history # <<>> /\ Len(history[1].blobs) > 0
    /\ result.kind = "return"

\* how often the record r occurs in the list bs
Occurrences(bs, r) == Cardinality({k \in 1..Len(bs) : bs[k] = r})

KeptOrDropped ==
    (StageDone /\ result.kind = "return") =>
        \A k \in 1..Len(returned_blobs(fn, result)) :
            LET r == returned_blobs(fn, result)[k]
            IN  /\ \E m \in 1..Len(blobs) : blobs[m] = r
                /\ Occurrences(returned_blobs(fn, result), r) <= Occurrences(blobs, r)

\* C14: in every step of every stage the Volume and the Mask stay as they
\* were, and when a stage has returned, every record of its output equals,
\* field for field, a record of its input and occurs in the output no more
\* often than in the input.
C14_KeepsOrDropsOnly ==
    [][image' = image /\ mask' = mask /\ KeptOrDropped']_vars

\* a stage returned some of its records and dropped others
C14_Witness ==
    /\ StageDone /\ result.kind = "return"
    /\ Len(returned_blobs(fn, result)) = 1 /\ Len(blobs) = 2
    /\ blobs[1] # blobs[2]

\* the place of the record r in the list bs (r occurs in bs exactly once)
IndexOf(bs, r) == CHOOSE k \in 1..Len(bs) : bs[k] = r

Suppressors ==
    {"suppress_close_blobs_by_intensity", "suppress_blobs_by_bridge_intensity"}

\* C15: when a suppressor has returned, the intensities of its output are
\* non-increasing, and two surviving records of equal intensity stand in the
\* output in the order they had in the input (stated for inputs whose records
\* are pairwise different, so that "the order in the input" is defined).
C15_DescendingStable ==
    (fn \in Suppressors /\ pc = "done" /\ result.kind = "return"
        /\ \A a, b \in 1..Len(blobs) : a # b => blobs[a] # blobs[b]) =>
        \A a, b \in 1..Len(result.value) :
            a < b =>
                /\ result.value[a].intensity >= result.value[b].intensity
                /\ result.value[a].intensity = result.value[b].intensity
                       => IndexOf(blobs, result.value[a]) < IndexOf(blobs, result.value[b])

\* the rows of slice z, as (y, x, sigma)
RowsOfSlice(rows, z) ==
    LET sel == SelectSeq(rows, LAMBDA r : r.z = 2 * z)
    IN  [k \in 1..Len(sel) |-> <<sel[k].y \div 2, sel[k].x \div 2, sel[k].scale>>]

\* C16: on a volume with non-zero maximum and a valid threshold_mode
\* detect_blobs returns; what it returns is N rows of z, y, x, sigma,
\* intensity, by ascending z, the rows of one slice in the order blob_log
\* gave them; N = 0 included.
C16_ReturnsRowsInSliceOrder ==
    (fn = "detect_blobs" /\ pc = "done" /\ image_max(image) # 0
        /\ params.threshold_mode \in {"percentile", "absolute"}) =>
        /\ result.kind = "return"
        /\ \A a, b \in 1..Len(result.value) :
              a < b => result.value[a].z <= result.value[b].z
        /\ \A z \in 0..(image.shape[1] - 1) :
              RowsOfSlice(result.value, z) = lib[blob_log_key(image, z, auto_threshold)]
        /\ \A a \in 1..Len(result.value) :
              DOMAIN result.value[a] = {"z", "y", "x", "scale", "intensity"}

-----------------------------------------------------------------------------
(* The caller calls a stage a second time with the arguments of the first   *)
(* call.                                                                    *)

AllStages == Stages \cup {"detect_blobs"}

RunAgain ==
    /\ fn \in AllStages /\ pc = "done"
    /\ history = <<>>
    /\ history' = <<[fn |-> fn, blobs |-> blobs, result |-> result]>>
    /\ pc' = "call" /\ result' = NoValue /\ run' = run + 1
    /\ blobs_sorted' = <<>> /\ keep_mask' = <<>> /\ i' = 0 /\ j' = 0 /\ acc' = <<>>
    /\ auto_threshold' = NoValue
    /\ eroded_mask' = {} /\ mask_difference' = {}
    /\ UNCHANGED <<fn, blobs, image, mask, params, out1, lib, guivars>>

InitTwice == InitPipeline \/ InitDetect

NextTwice == StageStep \/ NextDetect \/ RunAgain

SpecTwice == InitTwice /\ [][NextTwice]_vars

-----------------------------------------------------------------------------
(* MultiFileInputGUI (helper_functions/gui_helper_functions.py): two drop   *)
(* areas, an output folder and the "Run Analysis" button.  gui holds        *)
(*   brightfield_input, signal_input : [file_paths, file_list], file_list a *)
(*       list of items [toolTip, checkState];                                *)
(*   output_path : "None" or the folder;                                     *)
(*   run_button : whether the button is enabled;                             *)
(*   selected_paths, accepted : what run_analysis stored, dialog closed.     *)

MaxItems == 2

\* what can be dragged onto an area; os.path.isfile holds of the first two
Urls == {"/data/a.tif", "/data/b.tif", "/data"}
isfile(path) == path \in {"/data/a.tif", "/data/b.tif"}

DropAreas == {"brightfield_input", "signal_input"}

\* lines 78-83
get_file_paths(area) ==
    LET checked == SelectSeq(area.file_list, LAMBDA item : item.checkState = "Checked")
    IN  [k \in 1..Len(checked) |-> checked[k].toolTip]

\* lines 173-177
check_ready(g) ==
    [g EXCEPT !.run_button =
        /\ Len(get_file_paths(g.brightfield_input)) > 0
        /\ Len(get_file_paths(g.signal_input)) > 0
        /\ g.output_path # "None"]

\* lines 68-76: every dropped url that is a file becomes a checked item
RECURSIVE drop(_, _)
drop(area, urls) ==
    IF urls = <<>> THEN area
    ELSE drop(IF isfile(Head(urls))
                THEN [file_paths |-> Append(area.file_paths, Head(urls)),
                      file_list |-> Append(area.file_list,
                                      [toolTip |-> Head(urls), checkState |-> "Checked"])]
                ELSE area,
              Tail(urls))

\* list.remove(x): removes the first occurrence
list_remove(xs, x) ==
    LET first == CHOOSE k \in 1..Len(xs) : xs[k] = x /\ \A m \in 1..(k - 1) : xs[m] # x
    IN  [k \in 1..(Len(xs) - 1) |-> IF k < first THEN xs[k] ELSE xs[k + 1]]

\* QListWidget.takeItem(row)
takeItem(items, row) ==
    [k \in 1..(Len(items) - 1) |-> IF k < row THEN items[k] ELSE items[k + 1]]

\* lines 67-76.  Items are filled in before they are added to the list, and
\* adding an item does not emit itemChanged: check_ready is not called.
DropEvent ==
    /\ fn = "MultiFileInputGUI" /\ ~gui.accepted
    /\ \E target \in DropAreas, urls \in SeqsUpTo(Urls, 2) \ {<<>>} :
          /\ Len(drop(gui[target], urls).file_list) <= MaxItems
          /\ gui' = [gui EXCEPT ![target] = drop(@, urls)]
    /\ UNCHANGED <<fn, pc, blobs, image, mask, params, blobs_sorted, keep_mask, i, j,
                   acc, auto_threshold, maskvars, result, run, out1, lib, history,
                   review, annot>>

\* the user ticks or unticks an item: itemChanged is emitted, line 147/148
\* has connected it to check_ready
ItemChanged ==
    /\ fn = "MultiFileInputGUI" /\ ~gui.accepted
    /\ \E target \in DropAreas :
         \E row \in 1..Len(gui[target].file_list) :
            gui' = check_ready(
                     [gui EXCEPT ![target].file_list[row].checkState =
                         IF @ = "Checked" THEN "Unchecked" ELSE "Checked"])
    /\ UNCHANGED <<fn, pc, blobs, image, mask, params, blobs_sorted, keep_mask, i, j,
                   acc, auto_threshold, maskvars, result, run, out1, lib, history,
                   review, annot>>

\* lines 85-92, "Remove selected" chosen with the item of `row` selected;
\* taking an item out of the list does not emit itemChanged
ShowContextMenu ==
    /\ fn = "MultiFileInputGUI" /\ ~gui.accepted
    /\ \E target \in DropAreas :
         \E row \in 1..Len(gui[target].file_list) :
            gui' = [gui EXCEPT
                      ![target].file_paths =
                          list_remove(@, gui[target].file_list[row].toolTip),
                      ![target].file_list = takeItem(@, row)]
    /\ UNCHANGED <<fn, pc, blobs, image, mask, params, blobs_sorted, keep_mask, i, j,
                   acc, auto_threshold, maskvars, result, run, out1, lib, history,
                   review, annot>>

\* lines 150-155; the dialog returns "" when it is cancelled
SelectOutputFolder ==
    /\ fn = "MultiFileInputGUI" /\ ~gui.accepted
    /\ \E folder \in {"", "/out"} :
          gui' = check_ready(IF folder # "" THEN [gui EXCEPT !.output_path = folder]
                                            ELSE gui)
    /\ UNCHANGED <<fn, pc, blobs, image, mask, params, blobs_sorted, keep_mask, i, j,
                   acc, auto_threshold, maskvars, result, run, out1, lib, history,
                   review, annot>>

\* lines 157-171; only an enabled button can be clicked
RunAnalysis ==
    /\ fn = "MultiFileInputGUI" /\ ~gui.accepted
    /\ gui.run_button
    /\ LET bright_paths == get_file_paths(gui.brightfield_input)
           signal_paths == get_file_paths(gui.signal_input)
       IN  IF bright_paths = <<>> \/ signal_paths = <<>> \/ gui.output_path = "None"
             THEN /\ result' = Returned("warning: Missing Inputs")
                  /\ UNCHANGED gui
             ELSE /\ gui' = [gui EXCEPT
                               !.selected_paths =
                                   <<bright_paths[1], signal_paths[1], gui.output_path>>,
                               !.accepted = TRUE]
                  /\ result' = Returned("accept")
    /\ UNCHANGED <<fn, pc, blobs, image, mask, params, blobs_sorted, keep_mask, i, j,
                   acc, auto_threshold, maskvars, run, out1, lib, history,
                   review, annot>>

\* lines 116-148
InitGUI ==
    /\ fn = "MultiFileInputGUI" /\ pc = "exec"
    /\ gui = [brightfield_input |-> [file_paths |-> <<>>, file_list |-> <<>>],
              signal_input |-> [file_paths |-> <<>>, file_list |-> <<>>],
              output_path |-> "None",
              run_button |-> FALSE,
              selected_paths |-> "None",
              accepted |-> FALSE]
    /\ blobs = <<>> /\ image = NoImage /\ mask = NoMask /\ params = NoValue
    /\ blobs_sorted = <<>> /\ keep_mask = <<>> /\ i = 0 /\ j = 0
    /\ acc = <<>> /\ auto_threshold = NoValue
    /\ eroded_mask = {} /\ mask_difference = {}
    /\ result = NoValue /\ run = 1 /\ out1 = <<>>
    /\ lib = <<>> /\ history = <<>> /\ review = NoValue /\ annot = NoValue

NextGUI == DropEvent \/ ItemChanged \/ ShowContextMenu \/ SelectOutputFolder \/ RunAnalysis

SpecGUI == InitGUI /\ [][NextGUI]_vars

\* some item of the area is checked
HasChecked(area) == \E k \in 1..Len(area.file_list) : area.file_list[k].checkState = "Checked"

AllThreePresent ==
    /\ HasChecked(gui.brightfield_input)
    /\ HasChecked(gui.signal_input)
    /\ gui.output_path # "None"

\* C18: whatever was dropped, ticked, removed and selected so far, the "Run
\* Analysis" button is enabled only if a checked brightfield file, a checked
\* signal file and an output folder are all present, and it is enabled when
\* all three are present.
C18_RunButtonTracksInputs ==
    fn = "MultiFileInputGUI" => (gui.run_button <=> AllThreePresent)

-----------------------------------------------------------------------------
\* C19: in the bridge suppressor's inner loop,
\*   - a pass that marks the outer blob i excluded ends the inner loop: the
\*     scan moves on to outer index i + 1 and nothing else changes in
\*     keep_mask (the inner loop only ever runs for a kept i, so i meets no
\*     further j);
\*   - a pass that marks j excluded leaves i kept and goes on with j + 1;
\*   - the inner loop of i ends only when j has run past the last index or
\*     i has been marked excluded.
C19_InnerLoopControl ==
    [][ (fn = "suppress_blobs_by_bridge_intensity" /\ pc = "inner") =>
          /\ keep_mask[i]
          /\ (~keep_mask'[i]) =>
                /\ pc' = "outer" /\ i' = i + 1
                /\ keep_mask' = [keep_mask EXCEPT ![i] = FALSE]
          /\ (j <= Len(blobs_sorted) /\ keep_mask[j] /\ ~keep_mask'[j]) =>
                /\ keep_mask'[i] /\ pc' = "inner" /\ i' = i /\ j' = j + 1
                /\ keep_mask' = [keep_mask EXCEPT ![j] = FALSE]
          /\ (pc' = "inner") => (i' = i /\ j' = j + 1)
          /\ (pc' = "outer") => (j > Len(blobs_sorted) \/ ~keep_mask'[i])
      ]_vars

\* of three blobs the first was marked excluded by its comparison with the
\* second and was not compared with the third
C19_Witness ==
    /\ fn = "suppress_blobs_by_bridge_intensity" /\ pc = "outer"
    /\ Len(blobs_sorted) = 3 /\ i = 2 /\ j = 2
    /\ keep_mask = <<FALSE, TRUE, TRUE>>
    /\ in_gate(blobs_sorted[1], blobs_sorted[3], params.radius_xy, params.z_window)

-----------------------------------------------------------------------------
(* Both suppressors on the same inputs.                                     *)

InitSuppress ==
    /\ fn \in Suppressors /\ pc = "call"
    /\ blobs \in SeqsUpTo(BridgeRecords, MaxBlobs)
    /\ image \in BridgeVolumes
    /\ params \in [radius_xy : BridgeRadius, z_window : BridgeZWindow,
                   dip_threshold : {1}]
    /\ mask = NoMask
    /\ blobs_sorted = <<>> /\ keep_mask = <<>> /\ i = 0 /\ j = 0
    /\ acc = <<>> /\ auto_threshold = NoValue
    /\ eroded_mask = {} /\ mask_difference = {}
    /\ result = NoValue /\ run = 1 /\ out1 = <<>>
    /\ lib = <<>> /\ history = <<>> /\ gui = NoValue /\ review = NoValue /\ annot = NoValue

NextSuppress ==
    \/ ProxEntry \/ ProxOuter \/ ProxInner
    \/ BridgeEntry \/ BridgeOuter \/ BridgeInner

SpecSuppress == InitSuppress /\ [][NextSuppress]_vars

\* C20: in every step of the scan of either suppressor
\*   - the sorted list stays as it was made before the scan;
\*   - an index marked excluded stays marked excluded;
\*   - the outer blob of a comparison pass is a kept one;
\*   - a pass that meets an excluded j only moves on to j + 1: it marks
\*     nothing and raises nothing;
\* and what is returned is the rows still marked kept, so whatever i marked
\* excluded is absent from the output even if i was marked excluded too.
C20_KeepStateMonotone ==
    [][ (fn \in Suppressors /\ pc \in {"outer", "inner"}) =>
          /\ blobs_sorted' = blobs_sorted
          /\ \A k \in 1..Len(keep_mask) : ~keep_mask[k] => ~keep_mask'[k]
          /\ (pc' = "inner") => keep_mask'[i']
          /\ (pc = "inner" /\ j <= Len(blobs_sorted) /\ ~keep_mask[j]) =>
                (keep_mask' = keep_mask /\ j' = j + 1 /\ result' = result)
          /\ (pc' = "done" /\ result'.kind = "return") =>
                result'.value = boolean_index(blobs_sorted, keep_mask)
      ]_vars

\* the scan has reached, with the second blob as outer blob, a third blob
\* that the first one had marked excluded
C20_Witness ==
    /\ fn \in Suppressors /\ pc = "inner"
    /\ Len(blobs_sorted) = 3 /\ i = 2 /\ j = 3
    /\ keep_mask = <<TRUE, TRUE, FALSE>>
    /\ in_gate(blobs_sorted[2], blobs_sorted[3], params.radius_xy, params.z_window)

-----------------------------------------------------------------------------
\* 0 <= z < depth, 0 <= y < height, 0 <= x < width (coordinates are stored
\* doubled)
RecordInBounds(b, shape) ==
    /\ 0 <= b.z /\ b.z < 2 * shape[1]
    /\ 0 <= b.y /\ b.y < 2 * shape[2]
    /\ 0 <= b.x /\ b.x < 2 * shape[3]

\* C21: when the bridge suppressor compares two kept in-gate blobs that lie
\* inside the Volume, the voxels it samples are a line that starts at the
\* round-to-nearest voxel of blob i, ends at the round-to-nearest voxel of
\* blob j (both sampled), and stays inside the Volume.
C21_SamplesLineBetweenRoundedCentres ==
    ( /\ fn = "suppress_blobs_by_bridge_intensity" /\ pc = "inner"
      /\ j <= Len(blobs_sorted)
      /\ keep_mask[i] /\ keep_mask[j]
      /\ Close(blobs_sorted[i], blobs_sorted[j], params.radius_xy, params.z_window)
      /\ RecordInBounds(blobs_sorted[i], image.shape)
      /\ RecordInBounds(blobs_sorted[j], image.shape) ) =>
        LET coords == coords_between(blobs_sorted[i], blobs_sorted[j])
        IN  /\ coords # <<>>
            /\ coords[1] = round_voxel(blobs_sorted[i])
            /\ coords[Len(coords)] = round_voxel(blobs_sorted[j])
            /\ \A k \in 1..Len(coords) : coords[k] \in Voxels(image.shape)

-----------------------------------------------------------------------------
(* review_cells_with_napari (d_review_cells_manually_with_gui.py).  review  *)
(* holds                                                                    *)
(*   mask : the 2D label image [shape, label];  n_cells;                    *)
(*   exclude_border_cells : the keyword argument;                           *)
(*   file : the exclusion file on disk, [exists, lines];                    *)
(*   excluded : the list of booleans;  exclusion_mask : pixels set to 1;    *)
(*   current_index;                                                         *)
(*   error : what the last mouse callback raised, or "none";                *)
(* and, for stating properties, excluded0 (the list when the viewer         *)
(* opened), odd (the cells left-clicked an odd number of times), nclicks    *)
(* and last (the last mouse event).  Cursor positions are stored doubled.   *)

MaxClicks == 3
MaxFileLines == 2

Pixels(shape) == (0..(shape[1] - 1)) \X (0..(shape[2] - 1))

\* lines 89-90 / 156-157: one line "idx, val" per entry
write_lines(excluded) ==
    [k \in 1..Len(excluded) |->
        [idx |-> k - 1, val |-> IF excluded[k] THEN "True" ELSE "False"]]

\* line 55: line.strip().lower().endswith('true')
read_lines(lines) == [k \in 1..Len(lines) |-> lines[k].val \in {"True", "true"}]

\* line 43: mask.max()
mask_max(m) == CHOOSE v \in {m.label[p] : p \in Pixels(m.shape)} :
                   \A p \in Pixels(m.shape) : m.label[p] <= v

\* mask == cell_id
cell_mask(m, cell_id) == {p \in Pixels(m.shape) : m.label[p] = cell_id}

\* line 68: the cell has a pixel in the first or last row or column
touches_border(m, cell_id) ==
    \E p \in cell_mask(m, cell_id) :
        p[1] = 0 \/ p[1] = m.shape[1] - 1 \/ p[2] = 0 \/ p[2] = m.shape[2] - 1

\* lines 64-69, when no index is out of range
exclude_border(m, n_cells, excluded) ==
    [k \in 1..Len(excluded) |->
        excluded[k] \/ (k <= n_cells /\ touches_border(m, k))]

\* lines 72-76
exclusion_mask_of(m, excluded) ==
    UNION {cell_mask(m, k) : k \in {c \in 1..Len(excluded) : excluded[c]}}

\* lines 129-130: np.round(viewer.cursor.position).astype(int), last two axes
click_pixel(pos) == <<round_half_even(pos[1], 2), round_half_even(pos[2], 2)>>

\* line 133
click_in_bounds(p, shape) ==
    0 <= p[1] /\ p[1] < shape[1] /\ 0 <= p[2] /\ p[2] < shape[2]

\* line 134 behind the check of line 133; a label image wraps like any array
clicked_cell_id(m, p) ==
    IF click_in_bounds(p, m.shape) THEN m.label[<<p[1] % m.shape[1], p[2] % m.shape[2]>>]
    ELSE 0

\* cursor positions (y, x), doubled: (1,1), (0,0), (0,1), (-1,0), (1,3),
\* (1.5,1.5), (0.5,0.5)
ClickPositions ==
    {<<2, 2>>, <<0, 0>>, <<0, 2>>, <<-2, 0>>, <<2, 6>>, <<3, 3>>, <<1, 1>>}

\* 3 x 3 label images: cell 1 in the middle and cell 2 in the corner (0,0);
\* cell 1 in the middle only; no cell
ReviewMasks ==
    { [shape |-> <<3, 3>>,
       label |-> [p \in Pixels(<<3, 3>>) |->
                    IF p = <<1, 1>> THEN 1 ELSE IF p = <<0, 0>> THEN 2 ELSE 0]],
      [shape |-> <<3, 3>>,
       label |-> [p \in Pixels(<<3, 3>>) |-> IF p = <<1, 1>> THEN 1 ELSE 0]],
      [shape |-> <<3, 3>>, label |-> [p \in Pixels(<<3, 3>>) |-> 0]] }

\* the exclusion file left by an earlier run, if any
ReviewFiles ==
    {[exists |-> FALSE, lines |-> <<>>]} \cup
    UNION { {[exists |-> TRUE, lines |-> write_lines(e)] : e \in [1..n -> BOOLEAN]} :
              n \in 0..MaxFileLines }

\* lines 31-144: load, initial exclusion list, first save, viewer start
ReviewStart ==
    /\ fn = "review_cells_with_napari" /\ pc = "call"
    /\ LET n_cells == mask_max(review.mask)
           loaded == IF ~review.file.exists THEN [k \in 1..n_cells |-> FALSE]
                     ELSE read_lines(review.file.lines)
           border_fails ==
               /\ review.exclude_border_cells
               /\ \E c \in 1..n_cells : touches_border(review.mask, c) /\ c > Len(loaded)
           excluded == IF review.exclude_border_cells
                         THEN exclude_border(review.mask, n_cells, loaded)
                         ELSE loaded
       IN  IF border_fails
             THEN /\ result' = Raised(IndexError) /\ pc' = "done"
                  /\ review' = [review EXCEPT !.n_cells = n_cells]
           ELSE IF excluded = <<>>
             THEN /\ result' = Raised(IndexError) /\ pc' = "done"
                  /\ review' = [review EXCEPT !.n_cells = n_cells,
                                              !.excluded = excluded,
                                              !.file = [exists |-> TRUE, lines |-> write_lines(excluded)]]
           ELSE /\ review' = [review EXCEPT
                                !.n_cells = n_cells,
                                !.excluded = excluded,
                                !.excluded0 = excluded,
                                !.exclusion_mask = exclusion_mask_of(review.mask, excluded),
                                !.file = [exists |-> TRUE, lines |-> write_lines(excluded)],
                                !.current_index = 0]
                /\ pc' = "viewer"
                /\ UNCHANGED result
    /\ UNCHANGED <<fn, blobs, image, mask, params, blobs_sorted, keep_mask, i, j,
                   acc, auto_threshold, maskvars, run, out1, lib, history, gui, annot>>

\* lines 127-139 with update_cell (lines 114-125); the boundary overlay is
\* recomputed from exclusion_mask on every call and holds no state of its own
OnMouseClick ==
    /\ fn = "review_cells_with_napari" /\ pc = "viewer"
    /\ review.nclicks < MaxClicks
    /\ \E button \in {1, 2}, pos \in ClickPositions :
         LET cell == IF button = 1 THEN clicked_cell_id(review.mask, click_pixel(pos)) ELSE 0
             seen == [review EXCEPT
                        !.nclicks = @ + 1,
                        !.last = [button |-> button, pos |-> pos],
                        !.odd = IF cell = 0 THEN @
                                ELSE IF cell \in @ THEN @ \ {cell} ELSE @ \cup {cell}]
         IN  IF cell = 0
               THEN review' = [seen EXCEPT !.error = "none"]
             ELSE IF cell > Len(review.excluded)
               THEN review' = [seen EXCEPT !.error = "IndexError"]
             ELSE review' =
                    [seen EXCEPT
                       !.error = "none",
                       !.excluded[cell] = ~@,
                       !.current_index = cell - 1,
                       !.exclusion_mask =
                           IF review.excluded[cell]
                             THEN @ \ cell_mask(review.mask, cell)
                             ELSE @ \cup cell_mask(review.mask, cell)]
    /\ UNCHANGED <<fn, pc, blobs, image, mask, params, blobs_sorted, keep_mask, i, j,
                   acc, auto_threshold, maskvars, result, run, out1, lib, history,
                   gui, annot>>

\* lines 147-163: the viewer is closed, the list is saved
ReviewClose ==
    /\ fn = "review_cells_with_napari" /\ pc = "viewer"
    /\ review' = [review EXCEPT
                     !.file = [exists |-> TRUE, lines |-> write_lines(review.excluded)]]
    /\ result' = Returned("excluded_txt_path")
    /\ pc' = "done"
    /\ UNCHANGED <<fn, blobs, image, mask, params, blobs_sorted, keep_mask, i, j,
                   acc, auto_threshold, maskvars, run, out1, lib, history, gui, annot>>

InitReview ==
    /\ fn = "review_cells_with_napari" /\ pc = "call"
    /\ \E m \in ReviewMasks, f \in ReviewFiles, b \in BOOLEAN :
          review = [mask |-> m, n_cells |-> 0, exclude_border_cells |-> b, file |-> f,
                    excluded |-> <<>>, exclusion_mask |-> {}, current_index |-> 0,
                    error |-> "none", excluded0 |-> <<>>, odd |-> {}, nclicks |-> 0,
                    last |-> NoValue]
    /\ blobs = <<>> /\ image = NoImage /\ mask = NoMask /\ params = NoValue
    /\ blobs_sorted = <<>> /\ keep_mask = <<>> /\ i = 0 /\ j = 0
    /\ acc = <<>> /\ auto_threshold = NoValue
    /\ eroded_mask = {} /\ mask_difference = {}
    /\ result = NoValue /\ run = 1 /\ out1 = <<>>
    /\ lib = <<>> /\ history = <<>> /\ gui = NoValue /\ annot = NoValue

NextReview == ReviewStart \/ OnMouseClick \/ ReviewClose

SpecReview == InitReview /\ [][NextReview]_vars

\* the cell under a mouse event: the label at the rounded position for a
\* left click inside the mask, 0 otherwise
CellUnder(e) ==
    LET y == round_half_even(e.pos[1], 2)
        x == round_half_even(e.pos[2], 2)
    IN  IF e.button = 1 /\ 0 <= y /\ y <= review.mask.shape[1] - 1
                        /\ 0 <= x /\ x <= review.mask.shape[2] - 1
          THEN review.mask.label[<<y, x>>]
          ELSE 0

\* C22: while the viewer is open, a left click on a pixel of cell k flips
\* excluded[k-1] and nothing else, every other mouse event leaves the list as
\* it is; and when the viewer is closed the file holds the list the viewer
\* opened with, flipped at exactly the cells clicked an odd number of times.
C22_ClicksToggleCells ==
    [][ (fn = "review_cells_with_napari" /\ pc = "viewer") =>
          /\ (review'.nclicks = review.nclicks + 1) =>
                LET k == CellUnder(review'.last)
                IN  IF k > 0
                      THEN /\ k <= Len(review.excluded)
                           /\ review'.excluded = [review.excluded EXCEPT ![k] = ~@]
                      ELSE review'.excluded = review.excluded
          /\ (pc' = "done") =>
                /\ review.odd \subseteq 1..Len(review.excluded0)
                /\ review'.file.lines =
                     [k \in 1..Len(review.excluded0) |->
                        [idx |-> k - 1,
                         val |-> IF review.excluded0[k] # (k \in review.odd)
                                   THEN "True" ELSE "False"]]
      ]_vars

-----------------------------------------------------------------------------
\* min over the sampled line / mean of the two intensities > dip_threshold
\* (dip_threshold is stored doubled), for two records whose line is not empty
DipRatioExceeds(a, b) ==
    LET min_val == line_min(image, coords_between(a, b))
        peaks == a.intensity + b.intensity
    IN  IF peaks > 0 THEN 4 * min_val > params.dip_threshold * peaks
        ELSE peaks = 0 /\ min_val > 0

\* C23: when the bridge suppressor has returned, any two surviving records
\* that are within z_window and radius_xy of each other have
\* dip_ratio <= dip_threshold.
C23_SurvivingPairsHaveDip ==
    (BridgeDone /\ result.kind = "return") =>
        \A a, b \in 1..Len(result.value) :
            (a < b /\ Close(result.value[a], result.value[b],
                            params.radius_xy, params.z_window)) =>
                /\ coords_between(result.value[a], result.value[b]) # <<>>
                /\ ~DipRatioExceeds(result.value[a], result.value[b])

\* two blobs inside each other's gate, one slice apart, were both returned
C23_Witness ==
    /\ BridgeDone /\ result.kind = "return"
    /\ \E a, b \in 1..Len(result.value) :
          /\ a < b
          /\ Abs(result.value[a].z - result.value[b].z) = 2 * params.z_window
          /\ params.z_window > 0
          /\ Close(result.value[a], result.value[b], params.radius_xy, params.z_window)

-----------------------------------------------------------------------------
\* a step of the inner loop of the bridge suppressor that clears keep_mask[k]
BridgeExcludes(k) ==
    /\ fn = "suppress_blobs_by_bridge_intensity" /\ pc = "inner"
    /\ k \in 1..Len(keep_mask)
    /\ keep_mask[k] /\ ~keep_mask'[k]

\* C24: the bridge suppressor excludes the outer blob i only when the two
\* compared blobs have exactly equal intensity, and on such a tie it excludes
\* i and not j; when the intensities differ the excluded blob is the inner,
\* strictly weaker j, so the brighter blob of a pair is never the one excluded.
C24_OuterExcludedOnlyOnTie ==
    [][ \A k \in 1..Len(keep_mask) :
          BridgeExcludes(k) =>
            /\ j \in 1..Len(blobs_sorted)
            /\ blobs_sorted[i].intensity >= blobs_sorted[j].intensity
            /\ k = i <=> blobs_sorted[i].intensity = blobs_sorted[j].intensity
            /\ k = j <=> blobs_sorted[i].intensity > blobs_sorted[j].intensity
      ]_vars

\* two blobs of equal intensity were compared and the earlier-sorted one was
\* excluded
C24_Witness ==
    /\ fn = "suppress_blobs_by_bridge_intensity" /\ pc = "done"
    /\ Len(blobs_sorted) = 2
    /\ blobs_sorted[1].intensity = blobs_sorted[2].intensity
    /\ keep_mask = <<FALSE, TRUE>>
    /\ result.kind = "return"

-----------------------------------------------------------------------------
PerBlobFilters ==
    { "filter_blobs_by_local_intensity", "filter_blobs_by_sharpness",
      "filter_blobs_outside_eroded_mask" }

\* the per-blob test of filter f on the current image, mask and parameters
PassesFilter(f, b) ==
    IF f = "filter_blobs_by_local_intensity"
      THEN local_keeps(image, b, params.region_size, params.ratio_threshold)
    ELSE IF f = "filter_blobs_by_sharpness"
      THEN sharpness_keeps(image, b, params.drop_factor)
    ELSE mask_keeps(b, mask.shape,
                    mask.on \ binary_erosion(mask.on, params.erosion_iterations))

\* the blobs of bs that pass filter f, in the order of bs
PassingSubsequence(f, bs) ==
    LET Test(b) == PassesFilter(f, b) IN SelectSeq(bs, Test)

\* C25: each of the three per-blob filters returns the subsequence of its
\* input made of the blobs that pass its own test, in input order; so two of
\* them applied one after the other return the blobs passing both tests, which
\* is also what the opposite order of the two returns.
C25_PerBlobFiltersCommute ==
    (StageDone /\ fn \in PerBlobFilters /\ result.kind = "return") =>
        /\ returned_blobs(fn, result) = PassingSubsequence(fn, blobs)
        /\ (history # <<>> /\ history[1].fn \in PerBlobFilters) =>
              /\ returned_blobs(fn, result) =
                    PassingSubsequence(fn, PassingSubsequence(history[1].fn, history[1].blobs))
              /\ returned_blobs(fn, result) =
                    PassingSubsequence(history[1].fn, PassingSubsequence(fn, history[1].blobs))

\* two different per-blob filters ran one after the other on two blobs; the
\* first kept both and the second dropped one
C25_Witness ==
    /\ StageDone /\ fn \in PerBlobFilters /\ result.kind = "return"
    /\ history # <<>> /\ history[1].fn \in PerBlobFilters /\ history[1].fn # fn
    /\ Len(history[1].blobs) = 2 /\ Len(blobs) = 2
    /\ Len(returned_blobs(fn, result)) = 1

-----------------------------------------------------------------------------
(* The ground truth export of the annotation viewer.  annot holds the       *)
(* viewer's layers and the export handler's locals; point coordinates are   *)
(* in half units like blob coordinates.  matched is a history list: for     *)
(* each original blob already handled, the index of the current point it    *)
(* was matched to, or 0.                                                    *)

MaxPoints == 2

\* np.allclose(orig, curr, atol=1.0): |orig - curr| <= atol + 1e-5 * |curr| on
\* every axis
allclose(orig, curr) ==
    \A k \in 1..3 : 100000 * Abs(orig[k] - curr[k]) <= 200000 + Abs(curr[k])

\* a search that does not look at the used flags
first_match_any(orig, current_data, used) ==
    LET hits == {c \in 1..Len(current_data) : allclose(orig, current_data[c])}
    IN  IF hits = {} THEN 0 ELSE SetMin(hits)

\* the inner loop: the first current point that is unused and close to orig,
\* or 0 when the loop ends without a match
first_match(orig, current_data, used) ==
    LET hits == {c \in 1..Len(current_data) :
                    ~used[c] /\ allclose(orig, current_data[c])}
    IN  IF hits = {} THEN 0 ELSE SetMin(hits)

\* [curr for i, curr in enumerate(current_data) if not used[i]]
unused_points(current_data, used) ==
    LET Idx == 1..Len(current_data)
        Free(c) == ~used[c]
        idxs == SelectSeq([c \in Idx |-> c], Free)
    IN  [k \in 1..Len(idxs) |-> current_data[idxs[k]]]

\* comment_dict.get(tuple(np.round(coord, 2)), ""): coordinates in half units
\* are unchanged by rounding to two decimals
comment_of(comments, coord) ==
    IF coord \in DOMAIN comments THEN comments[coord] ELSE ""

LengthError ==
    [type |-> "ValueError", msg |-> "Length of values does not match length of index"]

ExportStart ==
    /\ fn = "export_ground_truth" /\ pc = "call"
    /\ IF annot.layers \cap {"Filtered Blobs", "Puncta"} = {}
         THEN /\ result' = Returned(NoValue) /\ pc' = "done"
              /\ UNCHANGED annot
         ELSE /\ annot' = [annot EXCEPT
                              !.used = [c \in 1..Len(annot.current_data) |-> FALSE],
                              !.labels = <<>>, !.origins = <<>>, !.statuses = <<>>,
                              !.matched = <<>>, !.o = 1]
              /\ pc' = "match"
              /\ UNCHANGED result
    /\ UNCHANGED <<fn, blobs, image, mask, params, blobs_sorted, keep_mask, i, j,
                   acc, auto_threshold, maskvars, run, out1, lib, history, gui, review>>

ExportMatch ==
    /\ fn = "export_ground_truth" /\ pc = "match"
    /\ annot.o <= Len(annot.original_data)
    /\ LET m == first_match(annot.original_data[annot.o], annot.current_data, annot.used)
       IN  annot' =
             IF m # 0
               THEN [annot EXCEPT !.used[m] = TRUE,
                                  !.labels = Append(@, "true_positive"),
                                  !.origins = Append(@, "detected"),
                                  !.statuses = Append(@, "kept"),
                                  !.matched = Append(@, m),
                                  !.o = @ + 1]
               ELSE [annot EXCEPT !.labels = Append(@, "false_positive"),
                                  !.origins = Append(@, "detected"),
                                  !.statuses = Append(@, "removed"),
                                  !.matched = Append(@, 0),
                                  !.o = @ + 1]
    /\ UNCHANGED <<fn, pc, blobs, image, mask, params, blobs_sorted, keep_mask, i, j,
                   acc, auto_threshold, maskvars, result, run, out1, lib, history,
                   gui, review>>

ExportRemaining ==
    /\ fn = "export_ground_truth" /\ pc = "match"
    /\ annot.o > Len(annot.original_data)
    /\ LET added == unused_points(annot.current_data, annot.used)
           labels == annot.labels \o [k \in 1..Len(added) |-> "false_negative"]
           origins == annot.origins \o [k \in 1..Len(added) |-> "manual"]
           statuses == annot.statuses \o [k \in 1..Len(added) |-> "added"]
           coords == annot.original_data \o added
       IN  IF Len(origins) # Len(coords) \/ Len(statuses) # Len(coords)
              \/ Len(labels) # Len(coords)
             THEN /\ result' = Raised(LengthError) /\ pc' = "done"
                  /\ annot' = [annot EXCEPT !.labels = labels, !.origins = origins,
                                            !.statuses = statuses]
             ELSE /\ annot' = [annot EXCEPT
                                 !.labels = labels, !.origins = origins,
                                 !.statuses = statuses, !.built = TRUE,
                                 !.df = [k \in 1..Len(coords) |->
                                            [z |-> coords[k][1], y |-> coords[k][2],
                                             x |-> coords[k][3],
                                             origin |-> origins[k],
                                             status |-> statuses[k],
                                             label_for_ml |-> labels[k],
                                             comment |-> comment_of(annot.comments,
                                                                    coords[k])]]]
                  /\ pc' = "prompt"
                  /\ UNCHANGED result
    /\ UNCHANGED <<fn, blobs, image, mask, params, blobs_sorted, keep_mask, i, j,
                   acc, auto_threshold, maskvars, run, out1, lib, history, gui, review>>

\* resolve_output_path_with_user_prompt returns None when the user declines
\* to save over an existing file; otherwise the table is written
ExportWrite ==
    /\ fn = "export_ground_truth" /\ pc = "prompt"
    /\ \E output_path \in {"path", "None"} :
          annot' = IF output_path = "None" THEN annot
                   ELSE [annot EXCEPT !.written = annot.df, !.saved = TRUE]
    /\ result' = Returned(NoValue)
    /\ pc' = "done"
    /\ UNCHANGED <<fn, blobs, image, mask, params, blobs_sorted, keep_mask, i, j,
                   acc, auto_threshold, maskvars, run, out1, lib, history, gui, review>>

\* points at (z, y, x) = (0,0,0), (0,0,1), (0,0,1.5), (1,0,1), (0,0,4.5)
AnnotPoints == {<<0, 0, 0>>, <<0, 0, 2>>, <<0, 0, 3>>, <<2, 0, 2>>, <<0, 0, 9>>}
AnnotLayers == {{"Filtered Blobs"}, {"Puncta"}, {"Filtered Blobs", "Puncta"}, {}}
AnnotComments == {<<>>, (<<0, 0, 0>> :> "dim")}

InitExport ==
    /\ fn = "export_ground_truth" /\ pc = "call"
    /\ \E orig \in SeqsUpTo(AnnotPoints, MaxPoints),
          curr \in SeqsUpTo(AnnotPoints, MaxPoints),
          ls \in AnnotLayers, cm \in AnnotComments :
          annot = [layers |-> ls, original_data |-> orig, current_data |-> curr,
                   comments |-> cm, used |-> <<>>, labels |-> <<>>,
                   origins |-> <<>>, statuses |-> <<>>, matched |-> <<>>, o |-> 0,
                   built |-> FALSE, df |-> <<>>, saved |-> FALSE, written |-> <<>>]
    /\ blobs = <<>> /\ image = NoImage /\ mask = NoMask /\ params = NoValue
    /\ blobs_sorted = <<>> /\ keep_mask = <<>> /\ i = 0 /\ j = 0
    /\ acc = <<>> /\ auto_threshold = NoValue
    /\ eroded_mask = {} /\ mask_difference = {}
    /\ result = NoValue /\ run = 1 /\ out1 = <<>>
    /\ lib = <<>> /\ history = <<>> /\ gui = NoValue /\ review = NoValue

NextExport == ExportStart \/ ExportMatch \/ ExportRemaining \/ ExportWrite

SpecExport == InitExport /\ [][NextExport]_vars

\* the table has been built
TableBuilt == fn = "export_ground_truth" /\ pc \in {"prompt", "done"} /\ annot.built

\* the current points no original blob was matched to, in layer order
UnmatchedCurrent ==
    LET Idx == 1..Len(annot.current_data)
        Free(c) == \A a \in 1..Len(annot.matched) : annot.matched[a] # c
        idxs == SelectSeq([c \in Idx |-> c], Free)
    IN  [k \in 1..Len(idxs) |-> annot.current_data[idxs[k]]]

RowTriple(r) == <<r.origin, r.status, r.label_for_ml>>

\* C26: in the exported table no current point is matched to two original
\* blobs; there are len(original) + (unmatched current points) rows; the
\* first len(original) rows are the original blobs in their order, each
\* (detected, kept, true_positive) when matched and (detected, removed,
\* false_positive) when not; the rows after them are the unmatched current
\* points, each (manual, added, false_negative).
C26_ExportRows ==
    TableBuilt =>
        LET n == Len(annot.original_data)
            extra == UnmatchedCurrent
            df == annot.df
        IN  /\ Len(annot.matched) = n
            /\ \A a, b \in 1..n :
                  (a # b /\ annot.matched[a] # 0) => annot.matched[a] # annot.matched[b]
            /\ \A a \in 1..n : annot.matched[a] \in 0..Len(annot.current_data)
            /\ Len(df) = n + Len(extra)
            /\ \A k \in 1..n :
                  /\ <<df[k].z, df[k].y, df[k].x>> = annot.original_data[k]
                  /\ RowTriple(df[k]) =
                        IF annot.matched[k] # 0
                          THEN <<"detected", "kept", "true_positive">>
                          ELSE <<"detected", "removed", "false_positive">>
            /\ \A k \in 1..Len(extra) :
                  /\ <<df[n + k].z, df[n + k].y, df[n + k].x>> = extra[k]
                  /\ RowTriple(df[n + k]) = <<"manual", "added", "false_negative">>
            /\ annot.saved => annot.written = df

\* a table with a kept, a removed and an added row, where the removed blob
\* lies within the tolerance of the current point taken by the kept one
C26_Witness ==
    /\ TableBuilt /\ annot.saved
    /\ Len(annot.original_data) = 2
    /\ annot.matched = <<1, 0>>
    /\ allclose(annot.original_data[2], annot.current_data[1])
    /\ Len(annot.df) = 3

====
